---- MODULE Spec2Model ----
(***************************************************************************)
(* Dashboard synchronisation logic of the Cyclone Impact Toolkit.          *)
(*                                                                         *)
(* Two dashboard pages exist, each an instance of a class named            *)
(* TyphoonDashboard: the historical dashboard (src/unnamed/part_000        *)
(* lines 1-943) and the nowcast dashboard (lines 945-1625).  One page is   *)
(* loaded at a time (variable page).  Every await of the source is a       *)
(* suspension point: the code between two awaits is one action.            *)
(*                                                                         *)
(* Text is modelled as a sequence of one-character strings, so that        *)
(* parseInt / parseFloat / template literals are computed, not assumed.    *)
(* Numbers with a fraction are fixed point, in tenths.                     *)
(***************************************************************************)
EXTENDS Integers, Sequences, FiniteSets, TLC

VARIABLES
    page,                   \* which dashboard class is instantiated
    pc,                     \* position of init / of the load loop
    caller,                 \* who runs the load loop: "init" or "onDataUpdate"
    attempt,                \* loop variable of the retry loop
    typhoonData,            \* this.typhoonData, in Object.keys iteration order
    fishingGrounds,         \* this.fishingGrounds
    fishingGroundsGeoJSON,  \* this.fishingGroundsGeoJSON
    currentTyphoon,         \* this.currentTyphoon
    currentYear,            \* this.currentYear (historical)
    currentDate,            \* this.currentDate (nowcast)
    typhoonList,            \* this.typhoonList (nowcast)
    yearOptions,            \* option values of #yearSelector
    typhoonOptions,         \* option values of #typhoonSelector / #typhoonSelect
    dateOptions,            \* option values of #dateSelect
    summaryCards,           \* text of the three .summary-value elements
    view,                   \* the tables and charts drawn by the page
    inflight,               \* bridge calls of event handlers awaiting a response
    lastGen,                \* number of handler-issued bridge calls so far
    storeGen,               \* lastGen-number of the call whose response is in the store
    loadCalls,              \* get_dashboard_data calls of the running load
    loadAttempts,           \* loop bodies entered by the running load
    waits,                  \* 1-second waits completed by the running load
    reloads,                \* onDataUpdate notifications received
    step,                   \* what the last step was: handler, input, calls issued
    distances,              \* the argument of getClosestGround / getMinDistance
    closestGround,          \* what getClosestGround returned for it
    geojsonServed,          \* the bridge's bundles hold fishing_grounds_geojson
    mapLayers,              \* the fishing-ground layers that are on this.map
    fishingGroundLayers,    \* this.fishingGroundLayers
    boatDetectionsLayer,    \* this.boatDetectionsLayer: the year it was built of
    boatDetectionsVisible,  \* this.boatDetectionsVisible
    boatOnMap,              \* this.boatDetectionsLayer is a layer of this.map
    boatFetches,            \* years whose get_boat_detections_geojson is awaited
    currentScreen,          \* app: this.currentScreen
    activeScreens,          \* app: the .screen elements of class active
    bridge,                 \* app: window.pywebview.api is attached
    api,                    \* app: this.api is set
    apiAttempts,            \* app: attempts of initializeAPI's retryInterval
    apiRetrying,            \* app: retryInterval is running
    pollHandle,             \* app: this.statusPollInterval, this.nowcastStatusPollInterval
    liveTimers,             \* app: the setInterval timers not cleared yet
    pending,                \* app: awaited calls that have not settled
    timeouts,               \* app: setTimeout callbacks that have not run
    banner,                 \* app: #errorBanner and #nowcastErrorBanner
    cancelDisabled,         \* app: disabled of #cancelAnalysisBtn, #cancelNowcastBtn
    dataSource,             \* app: data-source of the active .data-source-btn
    syntheticModal,         \* app: #syntheticModal is shown
    trackFileInput,         \* app: name of the file held by #trackFileInput
    savedTrackPath,         \* drawer: what getSavedTrackPath() returns
    runs,                   \* app: analysis runs requested from the backend
    finished,               \* app: the runs whose cancellation has finished
    terminated,             \* app: the runs a status request saw finished
    drawer,                 \* drawer: the fields of window.trackDrawer
    event                   \* app: the last step: handler, alert, calls made

vars == <<page, pc, caller, attempt, typhoonData, fishingGrounds,
          fishingGroundsGeoJSON, currentTyphoon, currentYear, currentDate,
          typhoonList, yearOptions, typhoonOptions, dateOptions, summaryCards,
          view, inflight, lastGen, storeGen, loadCalls, loadAttempts, waits,
          reloads, step, distances, closestGround, geojsonServed, mapLayers,
          fishingGroundLayers, boatDetectionsLayer, boatDetectionsVisible,
          boatOnMap, boatFetches,
          currentScreen, activeScreens, bridge,
          api, apiAttempts, apiRetrying, pollHandle, liveTimers, pending,
          timeouts, banner, cancelDisabled, dataSource, syntheticModal,
          trackFileInput, savedTrackPath, runs, finished, terminated,
          drawer, event>>

\* the fields and controls of a dashboard page
dashboard == <<page, pc, caller, attempt, typhoonData, fishingGrounds,
               fishingGroundsGeoJSON, currentTyphoon, currentYear,
               currentDate, typhoonList, yearOptions, typhoonOptions,
               dateOptions, summaryCards, view, inflight, lastGen, storeGen,
               loadCalls, loadAttempts, waits, reloads, step>>

\* the state of the application shell (CycloneToolkitApp, TrackDrawer)
app == <<currentScreen, activeScreens, bridge, api, apiAttempts, apiRetrying, pollHandle,
         liveTimers, pending, timeouts, banner, cancelDisabled, dataSource,
         syntheticModal, trackFileInput, savedTrackPath, runs, finished,
         terminated, drawer, event>>

\* the map of the historical dashboard and what the bridge serves for it
mapState == <<geojsonServed, mapLayers, fishingGroundLayers,
              boatDetectionsLayer, boatDetectionsVisible, boatOnMap,
              boatFetches>>

\* the state that is not a field or a control of a dashboard page
outside == <<distances, closestGround, app, mapState>>

(***************************************************************************)
(* Bounds of the exploration.                                              *)
(***************************************************************************)
MaxEvents == 2      \* user selections that fetch, and onDataUpdate
                    \* notifications, in one run
MaxStorms == 2      \* storms of a dataset drawn for the summary cards
MaxBoats == 1       \* largest averageBoats of a drawn dataset

NULL == "null"      \* JavaScript null / undefined of a string-valued field
NoYear == 0         \* JavaScript undefined of this.currentYear
NoDate == 0         \* JavaScript null of this.currentDate

(***************************************************************************)
(* Text and numbers.                                                       *)
(***************************************************************************)
DigitChars == <<"0", "1", "2", "3", "4", "5", "6", "7", "8", "9">>

DigitSet == {DigitChars[d] : d \in 1..10}

IsDigit(c) == c \in DigitSet

\* the value of each digit character
DigitTable ==
    [c \in DigitSet |-> (CHOOSE d \in 1..10 : DigitChars[d] = c) - 1]

DigitVal(c) == DigitTable[c]

RECURSIVE toString(_)
toString(n) ==
    IF n < 10 THEN <<DigitChars[n + 1]>>
    ELSE toString(n \div 10) \o <<DigitChars[(n % 10) + 1]>>

RECURSIVE LeadingDigits(_)
LeadingDigits(s) ==
    IF s = <<>> \/ ~IsDigit(Head(s)) THEN 0 ELSE 1 + LeadingDigits(Tail(s))

RECURSIVE DigitsValue(_, _)
DigitsValue(s, n) ==
    IF n = 0 THEN 0 ELSE DigitsValue(s, n - 1) * 10 + DigitVal(s[n])

RECURSIVE OctalValue(_, _)
OctalValue(s, n) ==
    IF n = 0 THEN 0 ELSE OctalValue(s, n - 1) * 8 + DigitVal(s[n])

parseIntRadix8(s) == OctalValue(s, LeadingDigits(s))

\* parseInt of a string that starts with a digit
parseInt(s) == DigitsValue(s, LeadingDigits(s))

\* parseFloat of a numeric string, in tenths (one fractional digit kept)
parseFloat(s) ==
    LET n == LeadingDigits(s)
        frac == IF Len(s) >= n + 2 /\ s[n + 1] = "." /\ IsDigit(s[n + 2])
                THEN DigitVal(s[n + 2]) ELSE 0
    IN  DigitsValue(s, n) * 10 + frac

\* the < of two strings (code-unit order), as JavaScript compares strings
RECURSIVE StringLess(_, _)
StringLess(a, b) ==
    IF b = <<>> THEN FALSE
    ELSE IF a = <<>> THEN TRUE
    ELSE IF Head(a) = Head(b) THEN StringLess(Tail(a), Tail(b))
    ELSE LET Code(c) == IF c = "." THEN 0 ELSE 1 + DigitVal(c)
         IN  Code(Head(a)) < Code(Head(b))

Knots == <<" ", "k", "n", "o", "t", "s">>

(***************************************************************************)
(* The dataset as an ordered mapping: a sequence of storm records, each    *)
(* carrying its key, in Object.keys order.                                 *)
(***************************************************************************)
Keys(data) == [i \in DOMAIN data |-> data[i].key]

HasKey(data, k) == \E i \in DOMAIN data : data[i].key = k

FirstKey(data) == data[1].key

NoGeoJSON == [present |-> FALSE, features |-> <<>>]

\* a bridge call: the function and its arguments (scope: a year or a date
\* where the call has one, id: a storm where the call has one)
Call(fn, scope, id) == [api |-> fn, scope |-> scope, id |-> id]

\* a bridge call awaiting its response, the handler that awaits it, and the
\* number of the user selection that started that handler (0: the load)
Request(h, call, gen) == [h |-> h, call |-> call, gen |-> gen]

\* step: the handler the last step belongs to, the function it ran, the
\* event's e.target.value, whether it replaced the dataset, the
\* selection before it, and the bridge calls it made
Step(h, at, value, commit, prev, calls) ==
    [h |-> h, at |-> at, value |-> value, commit |-> commit, prev |-> prev,
     calls |-> calls]

NoStep == Step("none", "none", NULL, FALSE, NULL, {})

NoText == <<>>      \* a text not produced yet

(***************************************************************************)
(* Application shell (src/frontend/static/js/app.js): values.              *)
(***************************************************************************)
Modes == {"historical", "nowcast"}

ConfigScreen(mode) ==
    IF mode = "historical" THEN "historical-config" ELSE "nowcast-config"

LoadingScreen(mode) ==
    IF mode = "historical" THEN "historical-loading" ELSE "nowcast-loading"

DashboardScreen(mode) ==
    IF mode = "historical" THEN "historical-dashboard" ELSE "nowcast-dashboard"

NoRun == 0          \* no analysis run

\* window.trackDrawer: isOpen, trackPoints (each point by the number of
\* its addPointToTrack call), the points added so far, hasUnsavedChanges,
\* this.api and whether the 100 ms timer of waitForAPI is set, the points
\* of an awaited save_track call (none: <<>>) and whether close() awaits
\* it, and the points that were stored under the saved path
Drawer(isOpen, trackPoints, drawn, hasUnsavedChanges, hasApi, waiting,
       saving, thenClose, stored) ==
    [isOpen |-> isOpen, trackPoints |-> trackPoints, drawn |-> drawn,
     hasUnsavedChanges |-> hasUnsavedChanges, api |-> hasApi,
     waiting |-> waiting, saving |-> saving, thenClose |-> thenClose,
     stored |-> stored]

\* no application page, no drawer
NoDrawer == Drawer(FALSE, <<>>, 0, FALSE, FALSE, FALSE, <<>>, FALSE, <<>>)

\* new TrackDrawer(): waitForAPI takes the bridge if it is attached, and
\* looks once more after 100 ms if it is not
TrackDrawer(attached) ==
    Drawer(FALSE, <<>>, 0, FALSE, attached, ~attached, <<>>, FALSE, <<>>)
NoDays == 0         \* JavaScript null of days
NoSlot == 0         \* a call that is not a status request

\* #errorBanner / #nowcastErrorBanner: style.display and the message text
Banner(shown, message) == [shown |-> shown, message |-> message]

NoBanner == Banner(FALSE, NoText)

\* the arguments of a bridge call that the claims speak of
AppCall(name, path, days, filename) ==
    [api |-> name, path |-> path, days |-> days, filename |-> filename]

\* an awaited call of handler run `run` of mode `mode`, with the arguments
\* the handler still reads after the await; slot tells the awaited status
\* requests of one timer apart
Pending(call, mode, run, slot) ==
    [call |-> call, mode |-> mode, run |-> run, slot |-> slot]

\* a setTimeout callback
Timeout(kind, mode, run) ==
    [kind |-> kind, mode |-> mode, run |-> run]

\* the last step: the handler, its mode and run, the text it read, the
\* alert it raised (or NoText), the bridge calls it made, the screen shown
\* before it, and the status it processed
Event(h, mode, run, input, alert, calls, screen, status) ==
    [h |-> h, mode |-> mode, run |-> run, input |-> input, alert |-> alert,
     calls |-> calls,
     screen |-> screen, status |-> status]

NoEvent == Event("none", "none", NoRun, NoText, NoText, {}, "none", "none")

\* no application shell: a dashboard page is loaded in the window
AppAbsent ==
    /\ currentScreen = "none"
    /\ activeScreens = {}
    /\ bridge = TRUE
    /\ api = FALSE
    /\ apiAttempts = 0
    /\ apiRetrying = FALSE
    /\ pollHandle = [m \in Modes |-> NoRun]
    /\ liveTimers = {}
    /\ pending = {}
    /\ timeouts = {}
    /\ banner = [m \in Modes |-> NoBanner]
    /\ cancelDisabled = [m \in Modes |-> FALSE]
    /\ dataSource = "ibtracs"
    /\ syntheticModal = FALSE
    /\ trackFileInput = NoText
    /\ savedTrackPath = NoText
    /\ runs = <<>>
    /\ finished = {}
    /\ terminated = {}
    /\ drawer = NoDrawer
    /\ event = NoEvent

\* a fishing-ground layer: the polygon of a feature, or the circle marker
\* of a ground, built of the dataset committed as generation gen
Layer(kind, ground, gen) == [kind |-> kind, ground |-> ground, gen |-> gen]

\* constructor: map = null, fishingGroundLayers = [], boatDetectionsLayer
\* = null; no boat detections asked for
MapConstructed ==
    /\ mapLayers = {}
    /\ fishingGroundLayers = {}
    /\ boatDetectionsLayer = NoYear
    /\ boatDetectionsVisible = TRUE
    /\ boatOnMap = FALSE
    /\ boatFetches = {}

\* nothing outside the dashboard page has happened
OutsideConstructed ==
    /\ distances = <<>>
    /\ closestGround = NoText
    /\ AppAbsent
    /\ MapConstructed
    /\ geojsonServed = TRUE

(***************************************************************************)
(* Retry loop: for (let attempt = 1; attempt <= 5; attempt++).             *)
(***************************************************************************)
LoopCondOffByOne(att) == att <= 6

LoopCond(att) == att <= 5

LastAttempt(att) == att = 5

(***************************************************************************)
(* Historical dashboard: a storm's boatData.                               *)
(***************************************************************************)
\* boatData.groundN: baseline and difference are numbers, distance is a
\* numeric string (NoText: no distance field)
GroundData(baseline, difference, distance) ==
    [present |-> TRUE, baseline |-> baseline, difference |-> difference,
     distance |-> distance]

\* boatData has no field groundN
NoGround ==
    [present |-> FALSE, baseline |-> 0, difference |-> 0, distance |-> NoText]

\* boatData: its fields ground0 .. ground4
BoatData(grounds) == [present |-> TRUE, grounds |-> grounds]

\* a storm record without boatData
NoBoatData == [present |-> FALSE, grounds |-> <<>>]

\* baseline [10,20,30,0,5], difference [-50,10,-5,0,200]
ExampleBoatData ==
    BoatData(<<GroundData(10, -50, <<"1", "2", "0", ".", "5">>),
               GroundData(20, 10, <<"8", "0">>),
               GroundData(30, -5, <<"9", "9", ".", "4">>),
               GroundData(0, 0, <<"3", "0", "0">>),
               GroundData(5, 200, <<"8", "0">>)>>)

(***************************************************************************)
(* Historical dashboard: what the bridge answers.                          *)
(***************************************************************************)
Storm(key, name, averageBoats, minDistance, maxSpeed) ==
    [key |-> key, name |-> name, averageBoats |-> averageBoats,
     minDistance |-> minDistance, maxSpeed |-> maxSpeed,
     avgSpeed |-> <<"7", ".", "5">>, boatData |-> ExampleBoatData]

AvailableYears == <<2019, 2020, 2021>>

LatestYear == 2021

\* a storm record with its own avgSpeed and boatData
StormWith(storm, avgSpeed, boatData) ==
    [storm EXCEPT !.avgSpeed = avgSpeed, !.boatData = boatData]

\* boatData without ground3 and ground4, and ground1 without a distance
PartialBoatData ==
    BoatData(<<GroundData(3, -2, <<"4", "0", ".", "5">>),
               GroundData(0, 7, NoText),
               GroundData(6, 1, <<"1", "2">>),
               NoGround, NoGround>>)

\* 2020: a storm lacking two grounds and a storm without boatData
YearTyphoons(year) ==
    CASE year = 2020 ->
             <<StormWith(Storm("A", "Amang", 1, <<"1", "0">>, <<"9">>),
                         <<"3">>, PartialBoatData),
               StormWith(Storm("B", "Betty", 1, <<"9">>, <<"1", "0">>),
                         <<"8", ".", "2">>, NoBoatData)>>
      [] year = 2021 -> <<Storm("C", "Chedeng", 2, <<"9", ".", "5">>, <<"9">>),
                          Storm("B", "Betty", 0, <<"1", "0">>, <<"1", "2">>)>>
      [] OTHER -> <<>>

YearGrounds(year) ==
    CASE year = 2020 -> <<"g0", "g1">>
      [] year = 2021 -> <<"g0">>
      [] OTHER -> <<>>

YearGeoJSON(year) ==
    IF YearGrounds(year) = <<>> THEN NoGeoJSON
    ELSE [present |-> TRUE, features |-> YearGrounds(year)]

\* fishing_grounds_geojson of the bundle the bridge answers with for a year
servedGeoJSON(year) == IF geojsonServed THEN YearGeoJSON(year) ELSE NoGeoJSON

(***************************************************************************)
(* Historical dashboard: derived metrics and the summary cards.            *)
(***************************************************************************)
mostDisruptiveStepLastWins(min, typhoon) ==
    IF typhoon.averageBoats <= min.averageBoats THEN typhoon ELSE min

mostDisruptiveStep(min, typhoon) ==
    IF typhoon.averageBoats < min.averageBoats THEN typhoon ELSE min

RECURSIVE mostDisruptiveFrom(_, _, _)
mostDisruptiveFrom(values, i, min) ==
    IF i > Len(values) THEN min
    ELSE mostDisruptiveFrom(values, i + 1, mostDisruptiveStep(min, values[i]))

mostDisruptive(values) == mostDisruptiveFrom(values, 2, values[1])

closestStepLexical(min, typhoon) ==
    IF StringLess(typhoon.minDistance, min.minDistance) THEN typhoon ELSE min

closestStep(min, typhoon) ==
    IF parseFloat(typhoon.minDistance) < parseFloat(min.minDistance)
    THEN typhoon ELSE min

RECURSIVE closestFrom(_, _, _)
closestFrom(values, i, min) ==
    IF i > Len(values) THEN min
    ELSE closestFrom(values, i + 1, closestStep(min, values[i]))

closest(values) == closestFrom(values, 2, values[1])

highestSpeedStepLexical(max, typhoon) ==
    IF StringLess(max.maxSpeed, typhoon.maxSpeed) THEN typhoon ELSE max

highestSpeedStep(max, typhoon) ==
    IF parseFloat(typhoon.maxSpeed) > parseFloat(max.maxSpeed)
    THEN typhoon ELSE max

RECURSIVE highestSpeedFrom(_, _, _)
highestSpeedFrom(values, i, max) ==
    IF i > Len(values) THEN max
    ELSE highestSpeedFrom(values, i + 1, highestSpeedStep(max, values[i]))

highestSpeed(values) == highestSpeedFrom(values, 2, values[1])

NoCards == <<NULL, NULL, <<>> >>

\* the cards after updateSummaryCards, given the cards before
updateSummaryCards(data, cur, cards) ==
    IF ~HasKey(data, cur) THEN cards
    ELSE <<mostDisruptive(data).name,
           closest(data).name,
           highestSpeed(data).maxSpeed \o Knots>>

defaultTyphoonLast(data) ==
    IF Len(data) > 0 THEN data[Len(data)].key ELSE NULL

\* "Set default typhoon to first available", else null
defaultTyphoon(data) ==
    IF Len(data) > 0 THEN FirstKey(data) ELSE NULL

(***************************************************************************)
(* The surfaces a page draws on.  A table is the sequence of its rows, a   *)
(* chart its datasets and the axis bounds set on it.                       *)
(***************************************************************************)
Infinity == 999999  \* Math.min() of no argument

Grounds == 1..5     \* 'ground0' .. 'ground4'

\* an axis of a chart: whether min and max were set, and their values
Axis(set, min, max) == [set |-> set, min |-> min, max |-> max]

NoAxis == Axis(FALSE, 0, 0)

\* charts.boatDifference: datasets[0].data, datasets[1].data and the
\* scales 'y-right' and 'y-left'
BoatDifferenceChart(created, baseline, difference, right, left) ==
    [created |-> created, baseline |-> baseline, difference |-> difference,
     right |-> right, left |-> left]

\* charts.averageBoat: data.labels, datasets[0].data, scales.x.max
AverageBoatChart(created, labels, data, max) ==
    [created |-> created, labels |-> labels, data |-> data, max |-> max]

\* what the historical page draws on: #speedTable, #distanceTableBottom,
\* the two charts, and whether the last render ended by an exception
HistoricalView(speedTable, distanceTable, boatDifference, averageBoat, thrown) ==
    [speedTable |-> speedTable, distanceTable |-> distanceTable,
     boatDifference |-> boatDifference, averageBoat |-> averageBoat,
     thrown |-> thrown]

\* the page as served: empty tables, no chart object
HistoricalBlank ==
    HistoricalView(<<>>, <<>>,
                   BoatDifferenceChart(FALSE, [g \in Grounds |-> 0],
                                       [g \in Grounds |-> 0], NoAxis, NoAxis),
                   AverageBoatChart(FALSE, <<>>, <<>>, 400),
                   FALSE)

\* createCharts(): createBoatDifferenceChart, createAverageBoatChart
createCharts(v) ==
    [v EXCEPT !.boatDifference =
                  BoatDifferenceChart(TRUE, [g \in Grounds |-> 0],
                                      [g \in Grounds |-> 0], NoAxis, NoAxis),
              !.averageBoat = AverageBoatChart(TRUE, <<>>, <<>>, 400)]

\* this.chart of the nowcast page: the two datasets
BoatCountChart(created, baseline, predicted) ==
    [created |-> created, baseline |-> baseline, predicted |-> predicted]

\* what the nowcast page draws on: the metric cards, this.chart,
\* #distanceChart and .distance-scale, #activityTable, whether this.map
\* exists, the layers of this.typhoonLayers and the layers on the map, and
\* whether the last render ended by an exception
NowcastView(cards, chart, distanceChart, scale, activityTable, map,
            typhoonLayers, layers, thrown) ==
    [cards |-> cards, chart |-> chart, distanceChart |-> distanceChart,
     scale |-> scale, activityTable |-> activityTable, map |-> map,
     typhoonLayers |-> typhoonLayers, mapLayers |-> layers,
     thrown |-> thrown]

NowcastBlank ==
    NowcastView(<<>>, BoatCountChart(FALSE, <<>>, <<>>), <<>>, 0, <<>>, FALSE,
                {}, {}, FALSE)

NoView == [thrown |-> FALSE]

\* the surfaces of a page of class p before any script has run
BlankView(p) ==
    IF p = "historical" THEN HistoricalBlank
    ELSE IF p = "nowcast" THEN NowcastBlank
    ELSE NoView

\* a dashboard object of class p right after its constructor, at
\* position at of its code
Fresh(p, at) ==
    /\ page = p
    /\ pc = at
    /\ caller = "init"
    /\ attempt = 1
    /\ typhoonData = <<>>
    /\ fishingGrounds = <<>>
    /\ fishingGroundsGeoJSON = NoGeoJSON
    /\ currentTyphoon = NULL
    /\ currentYear = NoYear
    /\ currentDate = NoDate
    /\ typhoonList = <<>>
    /\ yearOptions = <<>>
    /\ typhoonOptions = <<>>
    /\ dateOptions = <<>>
    /\ summaryCards = NoCards
    /\ view = BlankView(page)
    /\ inflight = {}
    /\ lastGen = 0
    /\ storeGen = 0
    /\ loadCalls = 0
    /\ loadAttempts = 0
    /\ waits = 0
    /\ reloads = 0
    /\ step = NoStep

(***************************************************************************)
(* Historical dashboard: constructor and init().                           *)
(***************************************************************************)
HistoricalConstructed ==
    /\ page = "historical"
    /\ pc = "loop"
    /\ caller = "init"
    /\ attempt = 1
    /\ typhoonData = <<>>
    /\ fishingGrounds = <<>>
    /\ fishingGroundsGeoJSON = NoGeoJSON
    /\ currentTyphoon = NULL
    /\ currentYear = NoYear
    /\ currentDate = NoDate
    /\ typhoonList = <<>>
    /\ yearOptions = <<>>
    /\ typhoonOptions = <<>>
    /\ dateOptions = <<>>
    /\ summaryCards = NoCards
    /\ view = BlankView(page)
    /\ inflight = {}
    /\ lastGen = 0
    /\ storeGen = 0
    /\ loadCalls = 0
    /\ loadAttempts = 0
    /\ waits = 0
    /\ reloads = 0
    /\ step = NoStep
    /\ OutsideConstructed

\* the load returns to its caller: the loop's locals are gone
loadReturn ==
    /\ pc' = "ready"
    /\ attempt' = 1
    /\ loadCalls' = 0
    /\ loadAttempts' = 0
    /\ waits' = 0

\* the polygon layers built of the features of a GeoJSON
polygons(geojson, gen) ==
    {Layer("polygon", geojson.features[i], gen) : i \in DOMAIN geojson.features}

\* the circle markers built of a fishing_grounds list
markers(grounds, gen) ==
    {Layer("marker", grounds[i], gen) : i \in DOMAIN grounds}

(***************************************************************************)
(* Historical dashboard: the view updates.  Each one reads the store and   *)
(* writes its own surface; a Page is the store together with the surfaces. *)
(***************************************************************************)
Page(data, cur, year, date, grounds, geojson, cards, v, layers, groundLayers, gen) ==
    [typhoonData |-> data, currentTyphoon |-> cur, currentYear |-> year,
     currentDate |-> date, fishingGrounds |-> grounds,
     fishingGroundsGeoJSON |-> geojson, summaryCards |-> cards, view |-> v,
     mapLayers |-> layers, fishingGroundLayers |-> groundLayers, gen |-> gen]

\* the store of a page: what the fetch completions and the selection
\* handlers own
Store(P) ==
    <<P.typhoonData, P.currentTyphoon, P.currentYear, P.currentDate,
      P.fishingGrounds, P.fishingGroundsGeoJSON>>

\* the sequence f with every element evaluated
Listed(f) == SubSeq(f, 1, Len(f))

\* U of the value of x, x being evaluated once: one call after another
Then(x, U(_)) == CHOOSE r \in {U(v) : v \in {x}} : TRUE

\* number.toFixed(1) and number.toFixed(0) of a number held in tenths
toFixed1(t) ==
    LET fixed(v) == toString(v \div 10) \o <<".">> \o toString(v % 10)
    IN  Then(t, fixed)

toFixed0(t) == Then((t + 5) \div 10, toString)

\* n * 1.2 rounded down instead of up
Floor12(n) == (12 * n) \div 10

\* Math.ceil(n * 1.2) of an integer n
Ceil12(n) == -((-12 * n) \div 10)

Abs(n) == IF n < 0 THEN -n ELSE n

\* Math.max(...xs) and Math.min(...xs) of numbers; of no argument
\* -Infinity and Infinity
MathMax(xs) ==
    LET maxOf(v) ==
            LET max[k \in 0..Len(v)] ==
                    LET greater(m) == IF v[k] > m THEN v[k] ELSE m
                    IN  IF k = 0 THEN -Infinity ELSE Then(max[k - 1], greater)
            IN  max[Len(v)]
    IN  Then(xs, maxOf)

MathMinOf(xs) == -MathMax([i \in DOMAIN xs |-> -xs[i]])

\* the storm record typhoonData[cur]
StormOf(data, cur) == data[CHOOSE i \in DOMAIN data : data[i].key = cur]

\* a row of #speedTable: data-typhoon, the three cells, the row's
\* 'highlighted' class and the 'highest' class of its second and third cell
SpeedRow(key, name, avg, max, highlighted, avgHighest, maxHighest) ==
    [key |-> key, name |-> name, avg |-> avg, max |-> max,
     highlighted |-> highlighted, avgHighest |-> avgHighest,
     maxHighest |-> maxHighest]

\* a row of #distanceTableBottom: data-typhoon, the name cell, the five
\* distance cells, the row's 'highlighted' class and the cell carrying
\* 'closest' (0: none)
DistanceRow(key, name, cells, highlighted, closestCell) ==
    [key |-> key, name |-> name, cells |-> cells,
     highlighted |-> highlighted, closest |-> closestCell]

\* updateSpeedTable that does not empty the tbody first
updateSpeedTableAppends(P) ==
    [P EXCEPT !.view.thrown = FALSE,
              !.view.speedTable =
                  @ \o [i \in DOMAIN P.typhoonData |->
                           SpeedRow(P.typhoonData[i].key, P.typhoonData[i].name,
                                    toFixed1(parseFloat(P.typhoonData[i].avgSpeed)),
                                    toFixed1(parseFloat(P.typhoonData[i].maxSpeed)),
                                    FALSE, FALSE, FALSE)]]

\* updateSpeedTable: the tbody is emptied and gets one row per storm
updateSpeedTable(P) ==
    [P EXCEPT !.view.thrown = FALSE,
              !.view.speedTable =
                  Listed([i \in DOMAIN P.typhoonData |->
                      SpeedRow(P.typhoonData[i].key, P.typhoonData[i].name,
                               toFixed1(parseFloat(P.typhoonData[i].avgSpeed)),
                               toFixed1(parseFloat(P.typhoonData[i].maxSpeed)),
                               FALSE, FALSE, FALSE)])]

\* the five distances of a storm's row, in tenths
RowDistances(boatData) ==
    [g \in Grounds |->
        IF boatData.grounds[g].present /\ boatData.grounds[g].distance # NoText
        THEN parseFloat(boatData.grounds[g].distance)
        ELSE 0]

\* the storms before the first one without boatData: reading
\* typhoon.boatData.ground0 of that one throws
RECURSIVE RowsBeforeThrow(_, _)
RowsBeforeThrow(data, i) ==
    IF i > Len(data) \/ ~data[i].boatData.present THEN i - 1
    ELSE RowsBeforeThrow(data, i + 1)

\* updateDistanceTable: the tbody is emptied and gets one row per storm,
\* up to the storm whose boatData is undefined
updateDistanceTable(P) ==
    LET n == RowsBeforeThrow(P.typhoonData, 1)
    IN  [P EXCEPT !.view.thrown = n < Len(P.typhoonData),
                  !.view.distanceTable =
                      Listed([i \in 1..n |->
                          DistanceRow(P.typhoonData[i].key,
                                      P.typhoonData[i].name,
                                      Listed([g \in Grounds |->
                                          toFixed0(RowDistances(P.typhoonData[i].boatData)[g])]),
                                      FALSE, 0)])]

\* closestCell after the loop over the cells of a distance row:
\* <<minDistance, closestCell>> after k cells, from <<Infinity, null>>
closestCellOf(cells) ==
    LET scan[k \in 0..Len(cells)] ==
            LET closer(min) ==
                    LET nearer(distance) ==
                            IF distance < min[1] THEN <<distance, k>> ELSE min
                    IN  Then(parseFloat(cells[k]), nearer)
            IN  IF k = 0 THEN <<Infinity, 0>> ELSE Then(scan[k - 1], closer)
    IN  scan[Len(cells)][2]

\* maxAvgCell (col "avg") or maxMaxCell (col "max") after the loop over
\* the rows of the speed table: <<max speed, row of the cell>> after k
\* rows, from <<-Infinity, null>>
highestCellOf(rows, col) ==
    LET scan[k \in 0..Len(rows)] ==
            LET higher(max) ==
                    LET faster(speed) ==
                            IF speed > max[1] THEN <<speed, k>> ELSE max
                    IN  Then(parseFloat(rows[k][col]), faster)
            IN  IF k = 0 THEN <<-Infinity, 0>> ELSE Then(scan[k - 1], higher)
    IN  scan[Len(rows)][2]

\* updateTableHighlights that moves the selection to the first storm
updateTableHighlightsSelects(P) ==
    [P EXCEPT !.view.thrown = FALSE,
              !.currentTyphoon = IF P.typhoonData # <<>>
                                 THEN FirstKey(P.typhoonData) ELSE @]

\* updateTableHighlights: every class is removed, the rows of the current
\* typhoon are highlighted, each distance row marks its closest cell, the
\* speed table marks its highest average and its highest maximum
updateTableHighlights(P) ==
    LET speed == P.view.speedTable
        dist == P.view.distanceTable
        highlight(cells) ==
            [P EXCEPT !.view.thrown = FALSE,
                      !.view.speedTable =
                          Listed([i \in DOMAIN speed |->
                              [speed[i] EXCEPT
                                  !.highlighted = speed[i].key = P.currentTyphoon,
                                  !.avgHighest = i = cells[1],
                                  !.maxHighest = i = cells[2]]]),
                      !.view.distanceTable =
                          Listed([i \in DOMAIN dist |->
                              [dist[i] EXCEPT
                                  !.highlighted = dist[i].key = P.currentTyphoon,
                                  !.closest = closestCellOf(dist[i].cells)]])]
    IN  Then(<<highestCellOf(speed, "avg"), highestCellOf(speed, "max")>>,
             highlight)

\* updateBoatDifferenceChart: without the chart, the selection, its record
\* or its boatData nothing is drawn; a missing ground counts as 0
updateBoatDifferenceChart(P) ==
    IF \/ ~P.view.boatDifference.created
       \/ P.currentTyphoon = NULL
       \/ ~HasKey(P.typhoonData, P.currentTyphoon)
       \/ ~StormOf(P.typhoonData, P.currentTyphoon).boatData.present
    THEN [P EXCEPT !.view.thrown = FALSE]
    ELSE LET boatData == StormOf(P.typhoonData, P.currentTyphoon).boatData
             baselineData ==
                 Listed([g \in Grounds |-> IF boatData.grounds[g].present
                                           THEN boatData.grounds[g].baseline
                                           ELSE 0])
             differenceData ==
                 Listed([g \in Grounds |-> IF boatData.grounds[g].present
                                           THEN boatData.grounds[g].difference
                                           ELSE 0])
             maxBaseline == MathMax(baselineData)
             absMaxDifference ==
                 MathMax(<<Abs(MathMinOf(differenceData)),
                           Abs(MathMax(differenceData))>>)
             scale(bound) == Axis(TRUE, -bound, bound)
         IN  [P EXCEPT !.view.thrown = FALSE,
                       !.view.boatDifference =
                           BoatDifferenceChart(TRUE, baselineData,
                               differenceData,
                               Then(Ceil12(maxBaseline), scale),
                               Then(Ceil12(absMaxDifference), scale))]

\* updateAverageBoatChart: one bar per storm of the dataset
updateAverageBoatChart(P) ==
    IF ~P.view.averageBoat.created THEN [P EXCEPT !.view.thrown = FALSE]
    ELSE LET averageBoats ==
                 Listed([i \in DOMAIN P.typhoonData |->
                            P.typhoonData[i].averageBoats])
         IN  [P EXCEPT !.view.thrown = FALSE,
                       !.view.averageBoat =
                           AverageBoatChart(TRUE,
                               Listed([i \in DOMAIN P.typhoonData |->
                                          P.typhoonData[i].name]),
                               averageBoats,
                               IF averageBoats = <<>> THEN -Infinity
                               ELSE Ceil12(MathMax(averageBoats)))]

\* updateSummaryCards of a page
updateSummaryCardsOf(P) ==
    [P EXCEPT !.view.thrown = FALSE,
              !.summaryCards = updateSummaryCards(P.typhoonData,
                                   P.currentTyphoon, P.summaryCards)]

\* updateMapFishingGrounds of a page: the layers of fishingGroundLayers
\* leave the map, the polygons of the GeoJSON are added and pushed
updateMapFishingGroundsOf(P) ==
    [P EXCEPT !.view.thrown = FALSE,
              !.mapLayers =
                  IF P.fishingGroundsGeoJSON.present
                  THEN (P.mapLayers \ P.fishingGroundLayers) \cup
                           polygons(P.fishingGroundsGeoJSON, P.gen)
                  ELSE P.mapLayers \ P.fishingGroundLayers,
              !.fishingGroundLayers =
                  IF P.fishingGroundsGeoJSON.present
                  THEN polygons(P.fishingGroundsGeoJSON, P.gen)
                  ELSE {}]

\* the view updates of the historical dashboard, by name
HistoricalUpdates ==
    {"updateSummaryCards", "updateBoatDifferenceChart",
     "updateAverageBoatChart", "updateSpeedTable", "updateDistanceTable",
     "updateTableHighlights", "updateMapFishingGrounds"}

HistoricalUpdate(name, P) ==
    CASE name = "updateSummaryCards" -> updateSummaryCardsOf(P)
      [] name = "updateBoatDifferenceChart" -> updateBoatDifferenceChart(P)
      [] name = "updateAverageBoatChart" -> updateAverageBoatChart(P)
      [] name = "updateSpeedTable" -> updateSpeedTable(P)
      [] name = "updateDistanceTable" -> updateDistanceTable(P)
      [] name = "updateTableHighlights" -> updateTableHighlights(P)
      [] name = "updateMapFishingGrounds" -> updateMapFishingGroundsOf(P)

\* the calls of a handler in order, inside its try block: the first one
\* that throws ends the sequence
RECURSIVE Cascade(_, _)
Cascade(names, P) ==
    LET next(Q) == IF Q.view.thrown THEN Q ELSE Cascade(Tail(names), Q)
        first(Q) == HistoricalUpdate(Head(names), Q)
    IN  IF names = <<>> THEN P ELSE Then(Then(P, first), next)

\* updateDashboard(): its renders in order (updateMap only logs)
updateDashboard ==
    <<"updateSummaryCards", "updateBoatDifferenceChart",
      "updateAverageBoatChart", "updateSpeedTable", "updateDistanceTable",
      "updateTableHighlights">>

\* the renders of loadTyphoonsByYear when the new dataset has a storm
yearRenders ==
    <<"updateBoatDifferenceChart", "updateSummaryCards", "updateSpeedTable",
      "updateDistanceTable", "updateAverageBoatChart",
      "updateTableHighlights">>

\* the renders of the #typhoonSelector change handler
selectorRenders == <<"updateBoatDifferenceChart", "updateSummaryCards">>

\* the renders of init() when the first dataset has a storm
initRenders == <<"updateBoatDifferenceChart">> \o updateDashboard

\* what a sequence of renders leaves of the cards and the view
Rendered(names, data, cur, cards, v) ==
    Cascade(names, Page(data, cur, NULL, NULL, <<>>, NoGeoJSON, cards, v,
                        {}, {}, 0))

\* initializeMap of the dataset the load left: polygons are added to the
\* map and pushed to fishingGroundLayers; without GeoJSON the circle
\* markers of fishingGrounds are added to the map only
initializeMap ==
    IF fishingGroundsGeoJSON'.present
    THEN /\ mapLayers' = polygons(fishingGroundsGeoJSON', storeGen)
         /\ fishingGroundLayers' = polygons(fishingGroundsGeoJSON', storeGen)
    ELSE /\ mapLayers' = markers(fishingGrounds', storeGen)
         /\ fishingGroundLayers' = {}

\* init() after "await this.loadDashboardData()" has returned with the
\* dataset data: listeners, map, charts, default typhoon, first render
init(data) ==
    /\ loadReturn
    /\ initializeMap
    /\ currentTyphoon' = IF Len(data) > 0 THEN FirstKey(data) ELSE currentTyphoon
    /\ typhoonOptions' = IF Len(data) > 0 THEN Keys(data) ELSE typhoonOptions
    /\ LET P == Rendered(initRenders, data, FirstKey(data), summaryCards,
                         createCharts(view))
       IN  IF Len(data) > 0
           THEN summaryCards' = P.summaryCards /\ view' = P.view
           ELSE summaryCards' = summaryCards /\ view' = createCharts(view)

\* one pass of the retry loop up to its first await
loadDashboardData_attempt ==
    /\ page = "historical"
    /\ pc = "loop"
    /\ LoopCond(attempt)
    /\ loadAttempts' = loadAttempts + 1
    /\ \/ \* window.pywebview.api is not there: wait one second, continue
          /\ pc' = "sleep"
          /\ step' = Step("init", "loadDashboardData", NULL, FALSE,
                          currentTyphoon, {})
       \/ \* loadAvailableYears() is awaited
          /\ pc' = "awaitYears"
          /\ step' = Step("init", "loadDashboardData", NULL, FALSE,
                          currentTyphoon,
                          {Call("get_available_years", NoYear, NULL)})
    /\ UNCHANGED outside
    /\ UNCHANGED <<page, caller, attempt, typhoonData, fishingGrounds,
                   fishingGroundsGeoJSON, currentTyphoon, currentYear,
                   currentDate, typhoonList, yearOptions, typhoonOptions,
                   dateOptions, summaryCards, view, inflight, lastGen, storeGen,
                   loadCalls, waits, reloads>>

\* the loop condition fails: loadDashboardData returns, init() goes on
loadDashboardData_exhausted ==
    /\ page = "historical"
    /\ pc = "loop"
    /\ ~LoopCond(attempt)
    /\ step' = Step(caller, "loadExhausted", NULL, FALSE, currentTyphoon, {})
    /\ UNCHANGED <<distances, closestGround, app, geojsonServed,
                   boatDetectionsVisible,
                   boatDetectionsLayer, boatOnMap, boatFetches>>
    /\ UNCHANGED <<page, caller, typhoonData, fishingGrounds,
                   fishingGroundsGeoJSON, currentYear, currentDate,
                   typhoonList, yearOptions, dateOptions, inflight, lastGen,
                   storeGen, reloads>>
    /\ init(typhoonData)

\* get_available_years answers (or throws, caught in loadAvailableYears);
\* then get_dashboard_data is called and awaited
loadAvailableYears ==
    /\ page = "historical"
    /\ pc = "awaitYears"
    /\ \/ /\ yearOptions' = [i \in DOMAIN AvailableYears |->
                                toString(AvailableYears[i])]
          /\ currentYear' = AvailableYears[Len(AvailableYears)]
       \/ UNCHANGED <<yearOptions, currentYear>>
    /\ pc' = "awaitData"
    /\ loadCalls' = loadCalls + 1
    /\ step' = Step("init", "loadDashboardData", NULL, FALSE, currentTyphoon,
                    {Call("get_dashboard_data", NoYear, NULL)})
    /\ UNCHANGED outside
    /\ UNCHANGED <<page, caller, attempt, typhoonData, fishingGrounds,
                   fishingGroundsGeoJSON, currentTyphoon, currentDate,
                   typhoonList, typhoonOptions, dateOptions, summaryCards, view,
                   inflight, lastGen, storeGen, loadAttempts, waits, reloads>>

\* get_dashboard_data answers with storms: commit, return, init() goes on
loadDashboardData_data ==
    /\ page = "historical"
    /\ pc = "awaitData"
    /\ typhoonData' = YearTyphoons(LatestYear)
    /\ fishingGrounds' = YearGrounds(LatestYear)
    /\ fishingGroundsGeoJSON' = servedGeoJSON(LatestYear)
    /\ currentYear' = LatestYear
    /\ init(YearTyphoons(LatestYear))
    /\ boatFetches' = boatFetches \cup {LatestYear}
    /\ step' = Step("init", "loadDashboardData", NULL, TRUE, currentTyphoon,
                    {Call("get_boat_detections_geojson", LatestYear, NULL)})
    /\ UNCHANGED <<distances, closestGround, app, geojsonServed,
                   boatDetectionsVisible,
                   boatDetectionsLayer, boatOnMap>>
    /\ UNCHANGED <<page, caller, currentDate, typhoonList, yearOptions,
                   dateOptions, inflight, lastGen, storeGen, reloads>>

\* get_dashboard_data answers with nothing or with no storm: empty dataset
loadDashboardData_empty ==
    /\ page = "historical"
    /\ pc = "awaitData"
    /\ typhoonData' = <<>>
    /\ fishingGrounds' = <<>>
    /\ fishingGroundsGeoJSON' = NoGeoJSON
    /\ init(<<>>)
    /\ step' = Step("init", "loadDashboardData", NULL, FALSE, currentTyphoon, {})
    /\ UNCHANGED <<distances, closestGround, app, geojsonServed,
                   boatDetectionsVisible,
                   boatDetectionsLayer, boatOnMap, boatFetches>>
    /\ UNCHANGED <<page, caller, currentYear, currentDate, typhoonList,
                   yearOptions, dateOptions, inflight, lastGen, storeGen,
                   reloads>>

\* get_dashboard_data throws: the catch block
loadDashboardData_catch ==
    /\ page = "historical"
    /\ pc = "awaitData"
    /\ IF LastAttempt(attempt)
       THEN /\ typhoonData' = <<>>
            /\ fishingGrounds' = <<>>
            /\ fishingGroundsGeoJSON' = NoGeoJSON
            /\ init(<<>>)
            /\ step' = Step(caller, "loadExhausted", NULL, FALSE,
                            currentTyphoon, {})
       ELSE /\ pc' = "sleep"
            /\ step' = Step("init", "loadDashboardData", NULL, FALSE,
                            currentTyphoon, {})
            /\ UNCHANGED <<typhoonData, fishingGrounds, fishingGroundsGeoJSON,
                           currentTyphoon, typhoonOptions, summaryCards, view,
                           attempt, loadCalls, loadAttempts, waits,
                           mapLayers, fishingGroundLayers>>
    /\ UNCHANGED <<distances, closestGround, app, geojsonServed,
                   boatDetectionsVisible,
                   boatDetectionsLayer, boatOnMap, boatFetches>>
    /\ UNCHANGED <<page, caller, currentYear, currentDate, typhoonList,
                   yearOptions, dateOptions, inflight, lastGen, storeGen,
                   reloads>>

\* the one-second timer of either retry loop fires: attempt++
wait ==
    /\ pc = "sleep"
    /\ pc' = "loop"
    /\ attempt' = attempt + 1
    /\ waits' = waits + 1
    /\ step' = Step(caller, "wait", NULL, FALSE, currentTyphoon, {})
    /\ UNCHANGED outside
    /\ UNCHANGED <<page, caller, typhoonData, fishingGrounds,
                   fishingGroundsGeoJSON, currentTyphoon, currentYear,
                   currentDate, typhoonList, yearOptions, typhoonOptions,
                   dateOptions, summaryCards, view, inflight, lastGen, storeGen,
                   loadCalls, loadAttempts, reloads>>

(***************************************************************************)
(* Historical dashboard: event handlers.                                   *)
(***************************************************************************)
Options(values) == {values[i] : i \in DOMAIN values}

\* the call loadTyphoonsByYear(year) awaits
loadTyphoonsByYearCall(year) == Call("get_dashboard_data_by_year", year, NULL)

\* #yearSelector change, up to the await in loadTyphoonsByYear
yearSelector_change ==
    /\ page = "historical"
    /\ pc = "ready"
    /\ \E selectedYear \in Options(yearOptions) \cup {<<>>} :
          IF selectedYear # <<>>
          THEN /\ lastGen + reloads < MaxEvents
               /\ lastGen' = lastGen + 1
               /\ inflight' = inflight \cup
                     {Request("yearSelector",
                              loadTyphoonsByYearCall(parseInt(selectedYear)),
                              lastGen + 1)}
               /\ step' = Step("yearSelector", "change", selectedYear, FALSE,
                               currentTyphoon,
                               {loadTyphoonsByYearCall(parseInt(selectedYear))})
          ELSE /\ step' = Step("yearSelector", "change", selectedYear, FALSE,
                               currentTyphoon, {})
               /\ UNCHANGED <<inflight, lastGen>>
    /\ UNCHANGED outside
    /\ UNCHANGED <<page, pc, caller, attempt, typhoonData, fishingGrounds,
                   fishingGroundsGeoJSON, currentTyphoon, currentYear,
                   currentDate, typhoonList, yearOptions, typhoonOptions,
                   dateOptions, summaryCards, view, storeGen, loadCalls,
                   loadAttempts, waits, reloads>>

\* updateMapFishingGrounds of the dataset just stored as generation gen:
\* the layers of fishingGroundLayers leave the map, the polygons of the
\* new GeoJSON are added and pushed; there is no marker fallback here
updateMapFishingGrounds(gen) ==
    LET P == updateMapFishingGroundsOf(
                 Page(<<>>, NULL, 0, 0, <<>>, fishingGroundsGeoJSON', NoCards,
                      NoView, mapLayers, fishingGroundLayers, gen))
    IN  /\ mapLayers' = P.mapLayers
        /\ fishingGroundLayers' = P.fishingGroundLayers

\* get_dashboard_data_by_year answers with a bundle: the dataset is replaced
loadTyphoonsByYear ==
    \E r \in inflight :
        /\ r.call.api = "get_dashboard_data_by_year"
        /\ inflight' = inflight \ {r}
        /\ typhoonData' = YearTyphoons(r.call.scope)
        /\ fishingGrounds' = YearGrounds(r.call.scope)
        /\ fishingGroundsGeoJSON' = servedGeoJSON(r.call.scope)
        /\ currentYear' = r.call.scope
        /\ storeGen' = r.gen
        /\ typhoonOptions' = Keys(YearTyphoons(r.call.scope))
        /\ currentTyphoon' = defaultTyphoon(YearTyphoons(r.call.scope))
        /\ LET P == Rendered(IF Len(YearTyphoons(r.call.scope)) > 0
                             THEN yearRenders ELSE <<>>,
                             YearTyphoons(r.call.scope),
                             defaultTyphoon(YearTyphoons(r.call.scope)),
                             summaryCards, view)
           IN  summaryCards' = P.summaryCards /\ view' = P.view
        /\ updateMapFishingGrounds(r.gen)
        /\ boatFetches' = boatFetches \cup {r.call.scope}
        /\ step' = Step("yearSelector", "loadTyphoonsByYear", NULL, TRUE,
                        currentTyphoon,
                        {Call("get_boat_detections_geojson", r.call.scope, NULL)})
        /\ UNCHANGED <<distances, closestGround, app, geojsonServed,
                       boatDetectionsVisible,
                       boatDetectionsLayer, boatOnMap>>
        /\ UNCHANGED <<page, pc, caller, attempt, currentDate, typhoonList,
                       yearOptions, dateOptions, lastGen, loadCalls,
                       loadAttempts, waits, reloads>>

\* get_dashboard_data_by_year answers with nothing, or throws: no change
loadTyphoonsByYear_failed ==
    \E r \in inflight :
        /\ r.call.api = "get_dashboard_data_by_year"
        /\ inflight' = inflight \ {r}
        /\ step' = Step("yearSelector", "loadTyphoonsByYear", NULL, FALSE,
                        currentTyphoon, {})
        /\ UNCHANGED outside
        /\ UNCHANGED <<page, pc, caller, attempt, typhoonData, fishingGrounds,
                       fishingGroundsGeoJSON, currentTyphoon, currentYear,
                       currentDate, typhoonList, yearOptions, typhoonOptions,
                       dateOptions, summaryCards, view, lastGen, storeGen,
                       loadCalls, loadAttempts, waits, reloads>>

\* this.boatDetectionsLayer, this.boatDetectionsVisible, and whether the
\* layer is on the map
Boats(layer, visible, onMap) ==
    [layer |-> layer, visible |-> visible, onMap |-> onMap]

\* renderBoatDetections that adds the new layer whatever the flag says
renderBoatDetectionsAttaches(b, year) == Boats(year, b.visible, TRUE)

\* renderBoatDetections(boatGeoJSON), the GeoJSON being of year: the layer
\* there is leaves the map, the new one is added to the map if visible
renderBoatDetections(b, year) == Boats(year, b.visible, b.visible)

toggleBoatDetectionsHides(b) ==
    IF b.layer = NoYear THEN b ELSE Boats(b.layer, FALSE, FALSE)

\* toggleBoatDetections(): without a layer nothing; else the flag is
\* flipped and the layer is added to or removed from the map
toggleBoatDetections(b) ==
    IF b.layer = NoYear THEN b
    ELSE Boats(b.layer, ~b.visible, ~b.visible)

\* dashboard.toggleBoatDetections() is called
toggleBoatDetections_call ==
    /\ page = "historical"
    /\ pc = "ready"
    /\ LET b == toggleBoatDetections(
                    Boats(boatDetectionsLayer, boatDetectionsVisible, boatOnMap))
       IN  /\ boatDetectionsLayer' = b.layer
           /\ boatDetectionsVisible' = b.visible
           /\ boatOnMap' = b.onMap
    /\ step' = Step("toggleBoatsBtn", "toggleBoatDetections", NULL, FALSE,
                    currentTyphoon, {})
    /\ UNCHANGED <<distances, closestGround, app, geojsonServed, mapLayers,
                   fishingGroundLayers, boatFetches>>
    /\ UNCHANGED <<page, pc, caller, attempt, typhoonData, fishingGrounds,
                   fishingGroundsGeoJSON, currentTyphoon, currentYear,
                   currentDate, typhoonList, yearOptions, typhoonOptions,
                   dateOptions, summaryCards, view, inflight, lastGen, storeGen,
                   loadCalls, loadAttempts, waits, reloads>>

\* get_boat_detections_geojson(year, 5000) answers with a FeatureCollection:
\* renderBoatDetections removes the layer there is and builds the new one.
\* Awaited fetches of one year are answered together.
loadBoatDetections_render ==
    \E year \in boatFetches :
        /\ page = "historical"
        /\ pc = "ready"
        /\ boatFetches' = boatFetches \ {year}
        /\ LET b == renderBoatDetections(
                        Boats(boatDetectionsLayer, boatDetectionsVisible,
                              boatOnMap), year)
           IN  /\ boatDetectionsLayer' = b.layer
               /\ boatOnMap' = b.onMap
        /\ step' = Step("loadBoatDetections", "render", toString(year), FALSE,
                        currentTyphoon, {})
        /\ UNCHANGED <<distances, closestGround, app, geojsonServed,
                       boatDetectionsVisible,
                       mapLayers, fishingGroundLayers>>
        /\ UNCHANGED <<page, pc, caller, attempt, typhoonData, fishingGrounds,
                       fishingGroundsGeoJSON, currentTyphoon, currentYear,
                       currentDate, typhoonList, yearOptions, typhoonOptions,
                       dateOptions, summaryCards, view, inflight, lastGen, storeGen,
                       loadCalls, loadAttempts, waits, reloads>>

\* get_boat_detections_geojson answers with nothing or without features,
\* or throws: a warning or an error is logged
loadBoatDetections_none ==
    \E year \in boatFetches :
        /\ page = "historical"
        /\ pc = "ready"
        /\ boatFetches' = boatFetches \ {year}
        /\ step' = Step("loadBoatDetections", "none", toString(year), FALSE,
                        currentTyphoon, {})
        /\ UNCHANGED <<distances, closestGround, app, geojsonServed,
                       boatDetectionsVisible,
                       mapLayers, fishingGroundLayers, boatDetectionsLayer,
                       boatOnMap>>
        /\ UNCHANGED <<page, pc, caller, attempt, typhoonData, fishingGrounds,
                       fishingGroundsGeoJSON, currentTyphoon, currentYear,
                       currentDate, typhoonList, yearOptions, typhoonOptions,
                       dateOptions, summaryCards, view, inflight, lastGen, storeGen,
                       loadCalls, loadAttempts, waits, reloads>>

\* #typhoonSelector change
typhoonSelector_change ==
    /\ page = "historical"
    /\ pc = "ready"
    /\ \E selectedTyphoon \in Options(typhoonOptions) \cup {""} :
          /\ IF selectedTyphoon # ""
             THEN /\ currentTyphoon' = selectedTyphoon
                  /\ LET P == Rendered(selectorRenders, typhoonData,
                                       selectedTyphoon, summaryCards, view)
                     IN  summaryCards' = P.summaryCards /\ view' = P.view
             ELSE UNCHANGED <<currentTyphoon, summaryCards, view>>
          /\ step' = Step("typhoonSelector", "change", selectedTyphoon, FALSE,
                          currentTyphoon, {})
    /\ UNCHANGED outside
    /\ UNCHANGED <<page, pc, caller, attempt, typhoonData, fishingGrounds,
                   fishingGroundsGeoJSON, currentYear, currentDate,
                   typhoonList, yearOptions, typhoonOptions, dateOptions,
                   inflight, lastGen, storeGen, loadCalls, loadAttempts,
                   waits, reloads>>

(***************************************************************************)
(* Nowcast dashboard: what the bridge answers.  A date is modelled by its  *)
(* day number (0: no date), so that sorting the ISO date strings is        *)
(* sorting numbers.                                                        *)
(***************************************************************************)
NowcastTyphoons ==
    <<[uuid |-> "U1", name |-> "Uno", type |-> "TY"],
      [uuid |-> "U2", name |-> "Dos", type |-> "TS"]>>

NowcastGrounds == <<"g0", "g1">>

DefaultDates == <<1>>

\* the keys of daily_data of a storm, in the order the backend inserted them
DailyDates(uuid) ==
    CASE uuid = "U1" -> <<1, 2>>
      [] uuid = "U2" -> <<3, 2>>
      [] OTHER -> <<>>

Known(uuid) == \E i \in DOMAIN NowcastTyphoons : NowcastTyphoons[i].uuid = uuid

NameOf(uuid) ==
    NowcastTyphoons[CHOOSE i \in DOMAIN NowcastTyphoons :
                        NowcastTyphoons[i].uuid = uuid].name

sort(dates) == SortSeq(dates, LAMBDA a, b : a < b)

\* daily_data[date] of a storm: boatCounts, distances (numbers in tenths;
\* absent for U2) and activityDifference
DailyData(uuid, date) ==
    CASE uuid = "U1" /\ date = 1 ->
             [boatCounts |-> [baseline |-> <<4, 0>>, predicted |-> <<2, 1>>],
              distances |-> [present |-> TRUE, values |-> <<1200, 4005>>],
              activityDifference |-> << <<"+", "5", "%">>, <<"-", "3", "%">> >>]
      [] uuid = "U1" ->
             [boatCounts |-> [baseline |-> <<4, 0>>, predicted |-> <<0, 0>>],
              distances |-> [present |-> TRUE, values |-> <<0, 0>>],
              activityDifference |-> << <<"-", "9", "%">> >>]
      [] OTHER ->
             [boatCounts |-> [baseline |-> <<7, 7>>, predicted |-> <<7, 8>>],
              distances |-> [present |-> FALSE, values |-> <<>>],
              activityDifference |-> <<>>]

\* track_points of a storm: latitude and longitude
TrackPoints(uuid) ==
    IF uuid = "U1" THEN <<[lat |-> 13, lng |-> 122], [lat |-> 14, lng |-> 121]>>
    ELSE <<[lat |-> 9, lng |-> 126]>>

TypeOf(uuid) ==
    NowcastTyphoons[CHOOSE i \in DOMAIN NowcastTyphoons :
                        NowcastTyphoons[i].uuid = uuid].type

\* transformed[typhoonKey]
NowcastStorm(uuid, date) ==
    [key |-> uuid, name |-> NameOf(uuid), type |-> TypeOf(uuid),
     date |-> date,
     boatCounts |-> DailyData(uuid, date).boatCounts,
     distances |-> DailyData(uuid, date).distances,
     activityDifference |-> DailyData(uuid, date).activityDifference,
     track |-> TrackPoints(uuid)]

\* transformTyphoonData that always goes back to the first available date
transformTyphoonDataResets(uuid, daily, curDate) ==
    LET availableDates == sort(daily)
        date == IF availableDates = <<>> THEN NoDate ELSE availableDates[1]
    IN  [typhoonData |-> IF date \in Options(daily)
                         THEN <<NowcastStorm(uuid, date)>>
                         ELSE <<>>,
         currentDate |-> date]

\* transformTyphoonData: the new this.typhoonData and the new this.currentDate
transformTyphoonData(uuid, daily, curDate) ==
    LET availableDates == sort(daily)
        date == IF curDate = NoDate \/ curDate \notin Options(daily)
                THEN (IF availableDates = <<>> THEN NoDate
                      ELSE availableDates[1])
                ELSE curDate
    IN  [typhoonData |-> IF date \in Options(daily)
                         THEN <<NowcastStorm(uuid, date)>>
                         ELSE <<>>,
         currentDate |-> date]

(***************************************************************************)
(* Nowcast dashboard: the view updates, on a Page whose view is a          *)
(* NowcastView.                                                            *)
(***************************************************************************)
\* initChart(): without the record of the selection no chart is built
initChart(P) ==
    IF ~HasKey(P.typhoonData, P.currentTyphoon)
    THEN [P EXCEPT !.view.thrown = FALSE]
    ELSE [P EXCEPT !.view.thrown = FALSE,
                   !.view.chart =
                       BoatCountChart(TRUE,
                           StormOf(P.typhoonData, P.currentTyphoon).boatCounts.baseline,
                           StormOf(P.typhoonData, P.currentTyphoon).boatCounts.predicted)]

\* updateChart(): a missing chart is initialized instead; the datasets of
\* an existing one are replaced
updateChart(P) ==
    IF ~P.view.chart.created THEN initChart(P)
    ELSE IF ~HasKey(P.typhoonData, P.currentTyphoon)
         THEN [P EXCEPT !.view.thrown = FALSE]
         ELSE [P EXCEPT !.view.thrown = FALSE,
                        !.view.chart.baseline =
                            StormOf(P.typhoonData, P.currentTyphoon).boatCounts.baseline,
                        !.view.chart.predicted =
                            StormOf(P.typhoonData, P.currentTyphoon).boatCounts.predicted]

\* a row of #distanceChart: the ground label, the distance shown with one
\* decimal, and the bar width distance / maxDistance kept as a fraction
DistanceBar(index, distance, maxDistance) ==
    [index |-> index, value |-> toFixed1(distance),
     width |-> <<distance, maxDistance>>]

\* Math.ceil(maxDistance / 400) * 400 of a distance in tenths
MaxScale(maxDistance) == -((-maxDistance) \div 4000) * 400

\* updateDistanceChart(): without the record or its distances nothing is
\* drawn; the rows are rebuilt, the scale only for a positive maximum
updateDistanceChart(P) ==
    IF \/ ~HasKey(P.typhoonData, P.currentTyphoon)
       \/ ~StormOf(P.typhoonData, P.currentTyphoon).distances.present
    THEN [P EXCEPT !.view.thrown = FALSE]
    ELSE LET ds == StormOf(P.typhoonData, P.currentTyphoon).distances.values
             maxDistance == MathMax(ds)
         IN  [P EXCEPT !.view.thrown = FALSE,
                       !.view.distanceChart =
                           Listed([i \in DOMAIN ds |->
                                      DistanceBar(i - 1, ds[i], maxDistance)]),
                       !.view.scale = IF maxDistance > 0
                                      THEN MaxScale(maxDistance) ELSE @]

\* updateActivityTable(): the tbody is emptied, then one row per ground;
\* reading activityDifference of a missing record throws
updateActivityTable(P) ==
    IF ~HasKey(P.typhoonData, P.currentTyphoon)
    THEN [P EXCEPT !.view.thrown = TRUE, !.view.activityTable = <<>>]
    ELSE LET diffs == StormOf(P.typhoonData, P.currentTyphoon).activityDifference
         IN  [P EXCEPT !.view.thrown = FALSE,
                       !.view.activityTable =
                           Listed([i \in DOMAIN diffs |->
                               [index |-> i - 1, diff |-> diffs[i],
                                positive |-> diffs[i] # <<>> /\ Head(diffs[i]) = "+"]])]

\* the polyline of a track and the circle marker of its point number i
TrackLayers(track) ==
    {[kind |-> "trackLine", index |-> 0, coords |-> track]} \cup
    {[kind |-> "point", index |-> i - 1, coords |-> <<track[i]>>] :
         i \in DOMAIN track}

\* updateTyphoonTrack(): nothing without the map; the layers of
\* typhoonLayers leave the map, then the track of the selection is drawn
updateTyphoonTrack(P) ==
    IF ~P.view.map THEN [P EXCEPT !.view.thrown = FALSE]
    ELSE IF ~HasKey(P.typhoonData, P.currentTyphoon)
         THEN [P EXCEPT !.view.thrown = FALSE,
                        !.view.mapLayers = @ \ P.view.typhoonLayers,
                        !.view.typhoonLayers = {}]
         ELSE LET layers ==
                      TrackLayers(StormOf(P.typhoonData, P.currentTyphoon).track)
              IN  [P EXCEPT !.view.thrown = FALSE,
                            !.view.mapLayers =
                                (@ \ P.view.typhoonLayers) \cup layers,
                            !.view.typhoonLayers = layers]

\* initMap(): the map is created, the fishing grounds are added to it and
\* the track is drawn
initMap(P) ==
    updateTyphoonTrack(
        [P EXCEPT !.view.map = TRUE,
                  !.view.mapLayers =
                      {[kind |-> "ground", index |-> i - 1,
                        coords |-> <<P.fishingGrounds[i]>>] :
                           i \in DOMAIN P.fishingGrounds}])

\* the view updates of the nowcast dashboard, by name
NowcastUpdates ==
    {"updateChart", "updateDistanceChart", "updateActivityTable",
     "updateTyphoonTrack"}

NowcastUpdate(name, P) ==
    CASE name = "updateChart" -> updateChart(P)
      [] name = "updateDistanceChart" -> updateDistanceChart(P)
      [] name = "updateActivityTable" -> updateActivityTable(P)
      [] name = "updateTyphoonTrack" -> updateTyphoonTrack(P)

\* updateDisplay(): nothing without the record of the selection; the name
\* card (the other metric cards are written the same way), then the four
\* updates in order
updateDisplay(P) ==
    IF P.currentTyphoon = NULL \/ ~HasKey(P.typhoonData, P.currentTyphoon)
    THEN [P EXCEPT !.view.thrown = FALSE]
    ELSE LET named == [P EXCEPT !.view.cards =
                          <<StormOf(P.typhoonData, P.currentTyphoon).name>>]
             tabled == Then(Then(Then(named, updateChart),
                                 updateDistanceChart),
                            updateActivityTable)
             tracked(Q) == IF Q.view.thrown THEN Q ELSE updateTyphoonTrack(Q)
         IN  Then(tabled, tracked)

\* a nowcast page: its store and its view
NowcastPage(data, cur, date, grounds, v) ==
    Page(data, cur, 0, date, grounds, NoGeoJSON, NoCards, v, {}, {}, 0)

\* init() once loadDataFromAPI has returned: the map, and with a record of
\* the selection the chart and the first display; the .then of
\* onDataUpdate: updateDisplay()
afterLoad(who, P) ==
    IF who = "init"
    THEN IF P.currentTyphoon # NULL /\ HasKey(P.typhoonData, P.currentTyphoon)
         THEN Then(Then(Then(P, initMap), initChart), updateDisplay)
         ELSE initMap(P)
    ELSE Then(P, updateDisplay)

(***************************************************************************)
(* Nowcast dashboard: constructor, init(), loadDataFromAPI.                *)
(***************************************************************************)
NowcastConstructed ==
    /\ page = "nowcast"
    /\ pc = "loop"
    /\ caller = "init"
    /\ attempt = 1
    /\ typhoonData = <<>>
    /\ fishingGrounds = <<>>
    /\ fishingGroundsGeoJSON = NoGeoJSON
    /\ currentTyphoon = NULL
    /\ currentYear = NoYear
    /\ currentDate = NoDate
    /\ typhoonList = <<>>
    /\ yearOptions = <<>>
    /\ typhoonOptions = <<>>
    /\ dateOptions = <<>>
    /\ summaryCards = NoCards
    /\ view = BlankView(page)
    /\ inflight = {}
    /\ lastGen = 0
    /\ storeGen = 0
    /\ loadCalls = 0
    /\ loadAttempts = 0
    /\ waits = 0
    /\ reloads = 0
    /\ step = NoStep
    /\ OutsideConstructed

\* the call loadTyphoonData(typhoonUuid) awaits
loadTyphoonDataCall(typhoonUuid) == Call("get_typhoon_data", NoDate, typhoonUuid)

\* the call updateDateSelector() awaits, this.currentTyphoon being uuid
updateDateSelectorCall(uuid) == Call("get_typhoon_dates", NoDate, uuid)

\* the handler a response belongs to
HandlerOf(r) == IF r.h = "load" THEN caller ELSE r.h

\* the change listeners exist once init() has called setupEventListeners
Listening == pc = "ready" \/ caller = "onDataUpdate"

loadDefaultData ==
    /\ typhoonData' = <<>>
    /\ fishingGrounds' = <<>>
    /\ currentTyphoon' = NULL
    /\ currentDate' = NoDate

\* one pass of the retry loop up to its first await
loadDataFromAPI_attempt ==
    /\ page = "nowcast"
    /\ pc = "loop"
    /\ LoopCond(attempt)
    /\ loadAttempts' = loadAttempts + 1
    /\ \/ \* window.pywebview.api is not there: wait one second, continue
          /\ pc' = "sleep"
          /\ step' = Step(caller, "loadDataFromAPI", NULL, FALSE,
                          currentTyphoon, {})
          /\ UNCHANGED loadCalls
       \/ \* get_dashboard_data is called and awaited
          /\ pc' = "awaitData"
          /\ loadCalls' = loadCalls + 1
          /\ step' = Step(caller, "loadDataFromAPI", NULL, FALSE,
                          currentTyphoon,
                          {Call("get_dashboard_data", NoDate, NULL)})
    /\ UNCHANGED outside
    /\ UNCHANGED <<page, caller, attempt, typhoonData, fishingGrounds,
                   fishingGroundsGeoJSON, currentTyphoon, currentYear,
                   currentDate, typhoonList, yearOptions, typhoonOptions,
                   dateOptions, summaryCards, view, inflight, lastGen, storeGen,
                   waits, reloads>>

\* the loop condition fails: loadDataFromAPI returns, its caller goes on
loadDataFromAPI_exhausted ==
    /\ page = "nowcast"
    /\ pc = "loop"
    /\ ~LoopCond(attempt)
    /\ loadReturn
    /\ step' = Step(caller, "loadExhausted", NULL, FALSE, currentTyphoon, {})
    /\ UNCHANGED outside
    /\ UNCHANGED <<page, caller, typhoonData, fishingGrounds,
                   fishingGroundsGeoJSON, currentTyphoon, currentYear,
                   currentDate, typhoonList, yearOptions, typhoonOptions,
                   dateOptions, summaryCards, inflight, lastGen, storeGen,
                   reloads>>
    /\ view' = IF pc' = "ready"
               THEN afterLoad(caller,
                              NowcastPage(typhoonData', currentTyphoon',
                                          currentDate', fishingGrounds',
                                          view)).view
               ELSE view

\* get_dashboard_data answers with storms: defaults are set and
\* loadTyphoonData(this.currentTyphoon) is awaited
loadDataFromAPI_data ==
    /\ page = "nowcast"
    /\ pc = "awaitData"
    /\ typhoonList' = NowcastTyphoons
    /\ fishingGrounds' = NowcastGrounds
    /\ currentTyphoon' = NowcastTyphoons[1].uuid
    /\ currentDate' = IF DefaultDates = <<>> THEN NoDate ELSE DefaultDates[1]
    /\ pc' = "awaitTyphoon"
    /\ inflight' = inflight \cup
          {Request("load", loadTyphoonDataCall(NowcastTyphoons[1].uuid), 0)}
    /\ step' = Step(caller, "loadDataFromAPI", NULL, FALSE, currentTyphoon,
                    {loadTyphoonDataCall(NowcastTyphoons[1].uuid)})
    /\ UNCHANGED outside
    /\ UNCHANGED <<page, caller, attempt, typhoonData, fishingGroundsGeoJSON,
                   currentYear, yearOptions, typhoonOptions, dateOptions,
                   summaryCards, view, lastGen, storeGen, loadCalls, loadAttempts,
                   waits, reloads>>

\* get_dashboard_data answers with nothing or with no storm
loadDataFromAPI_empty ==
    /\ page = "nowcast"
    /\ pc = "awaitData"
    /\ loadDefaultData
    /\ loadReturn
    /\ step' = Step(caller, "loadDataFromAPI", NULL, FALSE, currentTyphoon, {})
    /\ UNCHANGED outside
    /\ UNCHANGED <<page, caller, fishingGroundsGeoJSON, currentYear,
                   typhoonList, yearOptions, typhoonOptions, dateOptions,
                   summaryCards, inflight, lastGen, storeGen, reloads>>
    /\ view' = IF pc' = "ready"
               THEN afterLoad(caller,
                              NowcastPage(typhoonData', currentTyphoon',
                                          currentDate', fishingGrounds',
                                          view)).view
               ELSE view

\* get_dashboard_data throws: the catch block
loadDataFromAPI_catch ==
    /\ page = "nowcast"
    /\ pc = "awaitData"
    /\ IF LastAttempt(attempt)
       THEN /\ loadDefaultData
            /\ loadReturn
            /\ step' = Step(caller, "loadExhausted", NULL, FALSE,
                            currentTyphoon, {})
       ELSE /\ pc' = "sleep"
            /\ step' = Step(caller, "loadDataFromAPI", NULL, FALSE,
                            currentTyphoon, {})
            /\ UNCHANGED <<typhoonData, fishingGrounds, currentTyphoon,
                           currentDate, attempt, loadCalls, loadAttempts,
                           waits>>
    /\ UNCHANGED outside
    /\ UNCHANGED <<page, caller, fishingGroundsGeoJSON, currentYear,
                   typhoonList, yearOptions, typhoonOptions, dateOptions,
                   summaryCards, inflight, lastGen, storeGen, reloads>>
    /\ view' = IF pc' = "ready"
               THEN afterLoad(caller,
                              NowcastPage(typhoonData', currentTyphoon',
                                          currentDate', fishingGrounds',
                                          view)).view
               ELSE view

\* onDataUpdate(): loadDataFromAPI().then(updateDisplay)
onDataUpdate ==
    /\ page = "nowcast"
    /\ pc = "ready"
    /\ lastGen + reloads < MaxEvents
    /\ reloads' = reloads + 1
    /\ caller' = "onDataUpdate"
    /\ pc' = "loop"
    /\ step' = Step("onDataUpdate", "onDataUpdate", NULL, FALSE, currentTyphoon, {})
    /\ UNCHANGED outside
    /\ UNCHANGED <<page, attempt, typhoonData, fishingGrounds,
                   fishingGroundsGeoJSON, currentTyphoon, currentYear,
                   currentDate, typhoonList, yearOptions, typhoonOptions,
                   dateOptions, summaryCards, view, inflight, lastGen, storeGen,
                   loadCalls, loadAttempts, waits>>

(***************************************************************************)
(* Nowcast dashboard: loadTyphoonData, updateDateSelector and the change   *)
(* handlers.  A response is handled by the handler that awaits it (r.h).   *)
(***************************************************************************)
typhoonSelect_loadReloadsAll(value) == Call("get_dashboard_data", NoDate, NULL)

\* what the typhoonSelect handler awaits first:
\* this.loadTyphoonData(this.currentTyphoon), this.currentTyphoon being value
typhoonSelect_load(value) == loadTyphoonDataCall(value)

\* #typhoonSelect change, up to the await in loadTyphoonData
typhoonSelect_change ==
    /\ page = "nowcast"
    /\ Listening
    /\ lastGen + reloads < MaxEvents
    /\ \E value \in Options(typhoonOptions) :
          /\ currentTyphoon' = value
          /\ inflight' = inflight \cup
                {Request("typhoonSelect", typhoonSelect_load(value),
                         lastGen + 1)}
          /\ step' = Step("typhoonSelect", "change", value, FALSE,
                          currentTyphoon, {typhoonSelect_load(value)})
    /\ lastGen' = lastGen + 1
    /\ UNCHANGED outside
    /\ UNCHANGED <<page, pc, caller, attempt, typhoonData, fishingGrounds,
                   fishingGroundsGeoJSON, currentYear, currentDate,
                   typhoonList, yearOptions, typhoonOptions, dateOptions,
                   summaryCards, view, storeGen, loadCalls, loadAttempts, waits,
                   reloads>>

\* #dateSelect change, up to the await in loadTyphoonData
dateSelect_change ==
    /\ page = "nowcast"
    /\ Listening
    /\ lastGen + reloads < MaxEvents
    /\ \E value \in Options(dateOptions) :
          /\ currentDate' = value
          /\ inflight' = inflight \cup
                {Request("dateSelect", loadTyphoonDataCall(currentTyphoon),
                         lastGen + 1)}
          /\ step' = Step("dateSelect", "change", value, FALSE,
                          currentTyphoon,
                          {loadTyphoonDataCall(currentTyphoon)})
    /\ lastGen' = lastGen + 1
    /\ UNCHANGED outside
    /\ UNCHANGED <<page, pc, caller, attempt, typhoonData, fishingGrounds,
                   fishingGroundsGeoJSON, currentTyphoon, currentYear,
                   typhoonList, yearOptions, typhoonOptions, dateOptions,
                   summaryCards, view, storeGen, loadCalls, loadAttempts, waits,
                   reloads>>

\* get_typhoon_data settles; loadTyphoonData returns and the awaiting
\* handler runs up to its next await or to its end.  ok: the bridge answered
\* with the storm's record; otherwise it answered nothing or threw.
loadTyphoonData ==
    \E r \in inflight, ok \in BOOLEAN :
        /\ r.call.api = "get_typhoon_data"
        /\ ok => Known(r.call.id)
        /\ LET t == transformTyphoonData(r.call.id, DailyDates(r.call.id), currentDate)
           IN  /\ typhoonData' = IF ok THEN t.typhoonData ELSE typhoonData
               /\ currentDate' = IF ok THEN t.currentDate ELSE currentDate
               /\ storeGen' = IF ok THEN r.gen ELSE storeGen
        /\ IF r.h = "dateSelect"
           THEN \* updateDisplay()
                /\ inflight' = inflight \ {r}
                /\ step' = Step(HandlerOf(r), "loadTyphoonData", NULL, ok,
                                currentTyphoon, {})
                /\ UNCHANGED <<pc, typhoonOptions, dateOptions>>
           ELSE \* (updateTyphoonSelector();) await updateDateSelector()
                /\ typhoonOptions' =
                      IF r.h = "load"
                      THEN [i \in DOMAIN typhoonList |-> typhoonList[i].uuid]
                      ELSE typhoonOptions
                /\ dateOptions' = <<>>
                /\ pc' = IF r.h = "load" THEN "awaitDates" ELSE pc
                /\ inflight' = (inflight \ {r}) \cup
                      {Request(r.h, updateDateSelectorCall(currentTyphoon),
                               r.gen)}
                /\ step' = Step(HandlerOf(r), "loadTyphoonData", NULL, ok,
                                currentTyphoon,
                                {updateDateSelectorCall(currentTyphoon)})
        /\ UNCHANGED outside
        /\ UNCHANGED <<page, caller, attempt, fishingGrounds,
                       fishingGroundsGeoJSON, currentTyphoon, currentYear,
                       typhoonList, yearOptions, summaryCards, lastGen,
                       loadCalls, loadAttempts, waits, reloads>>
        /\ view' = IF r.h = "dateSelect"
                   THEN Then(NowcastPage(typhoonData', currentTyphoon,
                                         currentDate', fishingGrounds, view),
                             updateDisplay).view
                   ELSE view

\* get_typhoon_dates settles; updateDateSelector returns and the awaiting
\* handler runs to its end.  ok: the bridge answered with the dates.
updateDateSelector ==
    \E r \in inflight, ok \in BOOLEAN :
        /\ r.call.api = "get_typhoon_dates"
        /\ ok => Known(r.call.id)
        /\ inflight' = inflight \ {r}
        /\ dateOptions' = IF ok THEN dateOptions \o sort(DailyDates(r.call.id))
                          ELSE dateOptions
        /\ currentDate' = IF ok /\ currentDate = NoDate
                          THEN sort(DailyDates(r.call.id))[1] ELSE currentDate
        /\ IF r.h = "load"
           THEN loadReturn
           ELSE UNCHANGED <<pc, attempt, loadCalls, loadAttempts, waits>>
        /\ step' = Step(HandlerOf(r), "updateDateSelector", NULL, FALSE,
                        currentTyphoon, {})
        /\ UNCHANGED outside
        /\ UNCHANGED <<page, caller, typhoonData, fishingGrounds,
                       fishingGroundsGeoJSON, currentTyphoon, currentYear,
                       typhoonList, yearOptions, typhoonOptions, summaryCards,
                       lastGen, storeGen, reloads>>
        /\ view' = IF r.h = "load"
                   THEN afterLoad(caller,
                                  NowcastPage(typhoonData, currentTyphoon,
                                              currentDate', fishingGrounds,
                                              view)).view
                   ELSE Then(NowcastPage(typhoonData, currentTyphoon,
                                         currentDate', fishingGrounds, view),
                             updateDisplay).view

(***************************************************************************)
(* Nowcast dashboard: getClosestGround.  An element of a distances array   *)
(* is a JavaScript number (in tenths) or a string holding a number.        *)
(***************************************************************************)
MaxGrounds == 3     \* longest distances array drawn

Number(tenths) == [type |-> "number", num |-> tenths, text |-> NoText]

String(text) == [type |-> "string", num |-> 0, text |-> text]

\* the number an argument of Math.min is converted to
ToNumber(x) == IF x.type = "number" THEN x.num ELSE parseFloat(x.text)

RECURSIVE MathMinFrom(_, _, _)
MathMinFrom(values, i, min) ==
    IF i > Len(values) THEN min
    ELSE MathMinFrom(values, i + 1,
                     IF ToNumber(values[i]) < min THEN ToNumber(values[i])
                     ELSE min)

\* Math.min(...values)
MathMin(values) == MathMinFrom(values, 1, Infinity)

\* x === n, n being a number: never true of a string
StrictEqualsNumber(x, n) == x.type = "number" /\ x.num = n

\* values.indexOf(n), 0-based, -1 when no element === n
indexOf(values, n) ==
    IF \E i \in DOMAIN values : StrictEqualsNumber(values[i], n)
    THEN (CHOOSE i \in DOMAIN values :
              /\ StrictEqualsNumber(values[i], n)
              /\ \A j \in 1..(i - 1) : ~StrictEqualsNumber(values[j], n)) - 1
    ELSE -1

\* the text of `${groundIndex}`
IndexText(groundIndex) ==
    IF groundIndex < 0 THEN <<"-">> \o toString(-groundIndex)
    ELSE toString(groundIndex)

GroundLabel(groundIndex) ==
    <<"G", "r", "o", "u", "n", "d", " ">> \o IndexText(groundIndex)

getClosestGround(values) == GroundLabel(indexOf(values, MathMin(values)))

DistanceValues ==
    {Number(95), Number(102), Number(31),
     String(<<"9", ".", "5">>), String(<<"1", "0", ".", "2">>),
     String(<<"3", ".", "1">>)}

DistanceArrays == UNION {[1..n -> DistanceValues] : n \in 0..MaxGrounds}

\* a daily record with some distances array arrives and is transformed
GroundInit ==
    /\ Fresh("nowcast", "awaitTyphoon")
    /\ AppAbsent
    /\ MapConstructed
    /\ geojsonServed = TRUE
    /\ distances \in DistanceArrays
    /\ closestGround = NoText

\* transformTyphoonData: closestGround: this.getClosestGround(distances)
getClosestGround_call ==
    /\ closestGround = NoText
    /\ closestGround' = getClosestGround(distances)
    /\ UNCHANGED <<page, pc, caller, attempt, typhoonData, fishingGrounds,
                   fishingGroundsGeoJSON, currentTyphoon, currentYear,
                   currentDate, typhoonList, yearOptions, typhoonOptions,
                   dateOptions, summaryCards, view, inflight, lastGen, storeGen,
                   loadCalls, loadAttempts, waits, reloads, step, distances>>
    /\ UNCHANGED <<app, mapState>>

GroundNext == getClosestGround_call

GroundSpec == GroundInit /\ [][GroundNext]_vars

NowcastNext ==
    \/ loadDataFromAPI_attempt
    \/ loadDataFromAPI_exhausted
    \/ loadDataFromAPI_data
    \/ loadDataFromAPI_empty
    \/ loadDataFromAPI_catch
    \/ onDataUpdate
    \/ typhoonSelect_change
    \/ dateSelect_change
    \/ loadTyphoonData
    \/ updateDateSelector

(***************************************************************************)
(* The view updates called one at a time.  A render works on the page as   *)
(* it is, and the page afterwards is what the render left of it.           *)
(***************************************************************************)
CurrentPage ==
    Page(typhoonData, currentTyphoon, currentYear, currentDate,
         fishingGrounds, fishingGroundsGeoJSON, summaryCards, view,
         mapLayers, fishingGroundLayers, storeGen)

\* the page after a render: every field a render could write
Becomes(P) ==
    /\ typhoonData' = P.typhoonData
    /\ currentTyphoon' = P.currentTyphoon
    /\ currentYear' = P.currentYear
    /\ currentDate' = P.currentDate
    /\ fishingGrounds' = P.fishingGrounds
    /\ fishingGroundsGeoJSON' = P.fishingGroundsGeoJSON
    /\ summaryCards' = P.summaryCards
    /\ view' = P.view
    /\ mapLayers' = P.mapLayers
    /\ fishingGroundLayers' = P.fishingGroundLayers

\* what a render leaves alone whatever it writes
RenderFrame ==
    /\ UNCHANGED <<page, pc, caller, attempt, typhoonList, yearOptions,
                   typhoonOptions, dateOptions, inflight, lastGen, storeGen,
                   loadCalls, loadAttempts, waits, reloads>>
    /\ UNCHANGED <<distances, closestGround, app, geojsonServed,
                   boatDetectionsLayer, boatDetectionsVisible, boatOnMap,
                   boatFetches>>

\* the update called name, of the page's class
Update(name, P) ==
    IF name \in HistoricalUpdates THEN HistoricalUpdate(name, P)
    ELSE NowcastUpdate(name, P)

\* one view update runs, the page awaiting no bridge call
render_call ==
    /\ pc = "ready"
    /\ inflight = {}
    /\ \E name \in IF page = "historical" THEN HistoricalUpdates
                    ELSE NowcastUpdates :
          /\ Becomes(Update(name, CurrentPage))
          /\ step' = Step("render", name, NULL, FALSE, currentTyphoon, {})
    /\ RenderFrame

\* updateDashboard() runs: nothing without the record of the selection
updateDashboard_call ==
    /\ page = "historical"
    /\ pc = "ready"
    /\ inflight = {}
    /\ Becomes(IF HasKey(typhoonData, currentTyphoon)
               THEN Cascade(updateDashboard, CurrentPage)
               ELSE CurrentPage)
    /\ step' = Step("render", "updateDashboard", NULL, FALSE, currentTyphoon, {})
    /\ RenderFrame

\* updateDisplay() runs
updateDisplay_call ==
    /\ page = "nowcast"
    /\ pc = "ready"
    /\ inflight = {}
    /\ Becomes(updateDisplay(CurrentPage))
    /\ step' = Step("render", "updateDisplay", NULL, FALSE, currentTyphoon, {})
    /\ RenderFrame

HistoricalNext ==
    \/ loadDashboardData_attempt
    \/ loadDashboardData_exhausted
    \/ loadAvailableYears
    \/ loadDashboardData_data
    \/ loadDashboardData_empty
    \/ loadDashboardData_catch
    \/ yearSelector_change
    \/ loadTyphoonsByYear
    \/ loadTyphoonsByYear_failed
    \/ typhoonSelector_change

Init == HistoricalConstructed \/ NowcastConstructed

(***************************************************************************)
(* The dual-axis chart over drawn boatData: the first two grounds are      *)
(* drawn from the counts and the percentage differences up to the bounds   *)
(* (or are missing), the others are missing; the worked example of the     *)
(* specification is one more input.                                        *)
(***************************************************************************)
MaxCount == 6       \* largest baseline count drawn
MaxDiff == 6        \* largest percentage difference drawn, either sign

DrawnGrounds ==
    {NoGround} \cup
    {GroundData(b, d, <<"1", "0">>) : b \in 0..MaxCount, d \in -MaxDiff..MaxDiff}

DrawnBoatData ==
    {ExampleBoatData} \cup
    {BoatData(<<g0, g1, NoGround, NoGround, NoGround>>) :
         g0 \in DrawnGrounds, g1 \in DrawnGrounds}

\* the historical dashboard after init() with one storm, charts created,
\* before the chart of the storm is drawn
ChartInit ==
    /\ page = "historical"
    /\ pc = "ready"
    /\ caller = "init"
    /\ attempt = 1
    /\ \E boatData \in DrawnBoatData :
           typhoonData = <<StormWith(Storm("A", "Amang", 1, <<"1", "0">>, <<"9">>),
                                     <<"3">>, boatData)>>
    /\ fishingGrounds = YearGrounds(LatestYear)
    /\ fishingGroundsGeoJSON = YearGeoJSON(LatestYear)
    /\ currentTyphoon = FirstKey(typhoonData)
    /\ currentYear = LatestYear
    /\ currentDate = NoDate
    /\ typhoonList = <<>>
    /\ yearOptions = <<>>
    /\ typhoonOptions = Keys(typhoonData)
    /\ dateOptions = <<>>
    /\ summaryCards = NoCards
    /\ view = createCharts(HistoricalBlank)
    /\ inflight = {}
    /\ lastGen = 0
    /\ storeGen = 0
    /\ loadCalls = 0
    /\ loadAttempts = 0
    /\ waits = 0
    /\ reloads = 0
    /\ step = NoStep
    /\ OutsideConstructed

\* updateBoatDifferenceChart() runs
updateBoatDifferenceChart_call ==
    /\ page = "historical"
    /\ pc = "ready"
    /\ Becomes(updateBoatDifferenceChart(CurrentPage))
    /\ step' = Step("render", "updateBoatDifferenceChart", NULL, FALSE,
                    currentTyphoon, {})
    /\ RenderFrame

ChartNext == updateBoatDifferenceChart_call

ChartSpec == ChartInit /\ [][ChartNext]_vars

MaxDrawnGrounds == 3    \* grounds of a storm whose record is drawn

\* distances of the data: 11.6 and 12.4 both render as "12"
DrawnDistances ==
    {NoText, <<"1", "1", ".", "6">>, <<"1", "2">>, <<"1", "2", ".", "4">>}

\* boatData whose first grounds are drawn: absent, or present with a
\* distance of DrawnDistances; the other grounds are 300 away
DrawnDistanceData ==
    {BoatData([g \in Grounds |-> IF g <= MaxDrawnGrounds THEN drawn[g]
                                 ELSE GroundData(1, 0, <<"3", "0", "0">>)]) :
         drawn \in [1..MaxDrawnGrounds ->
                       {NoGround} \cup
                       {GroundData(1, 0, d) : d \in DrawnDistances}]}

\* the historical dashboard after init() with two storms, the first one
\* with drawn distances, before its tables are rendered
TableInit ==
    /\ page = "historical"
    /\ pc = "ready"
    /\ caller = "init"
    /\ attempt = 1
    /\ \E boatData \in DrawnDistanceData :
           typhoonData =
               <<StormWith(Storm("A", "Amang", 1, <<"1", "0">>, <<"9">>),
                           <<"3">>, boatData),
                 Storm("B", "Betty", 0, <<"1", "0">>, <<"1", "2">>)>>
    /\ fishingGrounds = YearGrounds(LatestYear)
    /\ fishingGroundsGeoJSON = YearGeoJSON(LatestYear)
    /\ currentTyphoon = FirstKey(typhoonData)
    /\ currentYear = LatestYear
    /\ currentDate = NoDate
    /\ typhoonList = <<>>
    /\ yearOptions = <<>>
    /\ typhoonOptions = Keys(typhoonData)
    /\ dateOptions = <<>>
    /\ summaryCards = NoCards
    /\ view = createCharts(HistoricalBlank)
    /\ inflight = {}
    /\ lastGen = 0
    /\ storeGen = 0
    /\ loadCalls = 0
    /\ loadAttempts = 0
    /\ waits = 0
    /\ reloads = 0
    /\ step = NoStep
    /\ OutsideConstructed

TableNext == updateDashboard_call

TableSpec == TableInit /\ [][TableNext]_vars

\* both dashboards with their renders called one at a time as well
ViewInit == HistoricalConstructed \/ NowcastConstructed

ViewNext ==
    \/ HistoricalNext
    \/ NowcastNext
    \/ wait
    \/ render_call
    \/ updateDashboard_call
    \/ updateDisplay_call

ViewSpec == ViewInit /\ [][ViewNext]_vars

\* the historical dashboard with its map, on a bridge that serves the
\* fishing grounds as polygons or as the older list of points only
MapInit ==
    /\ Fresh("historical", "loop")
    /\ distances = <<>>
    /\ closestGround = NoText
    /\ AppAbsent
    /\ MapConstructed
    /\ geojsonServed \in BOOLEAN

MapNext ==
    \/ HistoricalNext
    \/ wait
    \/ loadBoatDetections_render
    \/ loadBoatDetections_none
    \/ toggleBoatDetections_call

MapSpec == MapInit /\ [][MapNext]_vars

Next == HistoricalNext \/ NowcastNext \/ wait

Spec == Init /\ [][Next]_vars

\* the steps of a running load (init's, or onDataUpdate's)
LoadStep ==
    \/ loadDashboardData_attempt
    \/ loadDashboardData_exhausted
    \/ loadAvailableYears
    \/ loadDashboardData_data
    \/ loadDashboardData_empty
    \/ loadDashboardData_catch
    \/ loadDataFromAPI_attempt
    \/ loadDataFromAPI_exhausted
    \/ loadDataFromAPI_data
    \/ loadDataFromAPI_empty
    \/ loadDataFromAPI_catch
    \/ loadTyphoonData
    \/ updateDateSelector
    \/ wait

\* every timer fires and every bridge call the load awaits settles
FairSpec == Spec /\ WF_vars(LoadStep)

(***************************************************************************)
(* The summary cards over every small dataset: the historical dashboard    *)
(* as init() leaves it after get_dashboard_data answered with the dataset, *)
(* then storm selections.                                                  *)
(***************************************************************************)
StormKeys == <<"A", "B", "C", "D", "E">>

StormNames == <<"Amang", "Betty", "Chedeng", "Dodong", "Egay">>

DistanceStrings == {<<"9">>, <<"1", "0">>, <<"9", ".", "5">>}

SpeedStrings == {<<"9">>, <<"1", "0">>}

Metrics == (0..MaxBoats) \X DistanceStrings \X SpeedStrings

Datasets ==
    UNION {{[i \in 1..n |-> Storm(StormKeys[i], StormNames[i],
                                  m[i][1], m[i][2], m[i][3])] :
              m \in [1..n -> Metrics]} : n \in 1..MaxStorms}

SummaryInit ==
    /\ page = "historical"
    /\ pc = "ready"
    /\ caller = "init"
    /\ attempt = 1
    /\ typhoonData \in Datasets
    /\ fishingGrounds = YearGrounds(LatestYear)
    /\ fishingGroundsGeoJSON = YearGeoJSON(LatestYear)
    /\ currentTyphoon = FirstKey(typhoonData)
    /\ currentYear = LatestYear
    /\ currentDate = NoDate
    /\ typhoonList = <<>>
    /\ yearOptions = <<>>
    /\ typhoonOptions = Keys(typhoonData)
    /\ dateOptions = <<>>
    /\ summaryCards = Rendered(initRenders, typhoonData,
                               FirstKey(typhoonData), NoCards,
                               createCharts(HistoricalBlank)).summaryCards
    /\ view = Rendered(initRenders, typhoonData, FirstKey(typhoonData),
                       NoCards, createCharts(HistoricalBlank)).view
    /\ inflight = {}
    /\ lastGen = 0
    /\ storeGen = 0
    /\ loadCalls = 0
    /\ loadAttempts = 0
    /\ waits = 0
    /\ reloads = 0
    /\ step = Step("init", "loadDashboardData", NULL, TRUE, NULL,
                   {Call("get_boat_detections_geojson", LatestYear, NULL)})
    /\ OutsideConstructed

SummaryNext == typhoonSelector_change

SummarySpec == SummaryInit /\ [][SummaryNext]_vars

(***************************************************************************)
(* Application shell: constructor, initializeAPI, navigation.              *)
(***************************************************************************)
MaxRuns == 1        \* analysis runs requested from the backend in one run
MaxInFlight == 2    \* calls awaiting their answer at one time

maxAttempts == 50   \* const maxAttempts = 50

\* the mode of each run requested so far is runs[run]
lastRun(mode) ==
    IF \E i \in DOMAIN runs : runs[i] = mode
    THEN CHOOSE i \in DOMAIN runs :
             runs[i] = mode /\ \A j \in DOMAIN runs : runs[j] = mode => j <= i
    ELSE NoRun

\* new CycloneToolkitApp(): init() has run checkAPI() once
AppConstructed ==
    /\ currentScreen = "welcome"
    /\ activeScreens = {"welcome"}
    /\ bridge \in BOOLEAN
    /\ api = bridge
    /\ apiAttempts = 0
    /\ apiRetrying = ~bridge
    /\ pollHandle = [m \in Modes |-> NoRun]
    /\ liveTimers = {}
    /\ pending = {}
    /\ timeouts = {}
    /\ banner = [m \in Modes |-> NoBanner]
    /\ cancelDisabled = [m \in Modes |-> FALSE]
    /\ dataSource = "ibtracs"
    /\ syntheticModal = FALSE
    /\ trackFileInput = NoText
    /\ savedTrackPath = NoText
    /\ runs = <<>>
    /\ finished = {}
    /\ terminated = {}
    /\ drawer = TrackDrawer(bridge)
    /\ event = NoEvent

\* the host attaches window.pywebview.api
bridgeAttached ==
    /\ currentScreen # "none"
    /\ ~bridge
    /\ bridge' = TRUE
    /\ event' = Event("host", "none", NoRun, NoText, NoText, {}, currentScreen, "none")
    /\ UNCHANGED <<currentScreen, activeScreens, api, apiAttempts, apiRetrying, pollHandle,
                   liveTimers, pending, timeouts, banner, cancelDisabled,
                   dataSource, syntheticModal, trackFileInput, savedTrackPath,
                   runs, finished, terminated, drawer>>
    /\ UNCHANGED <<dashboard, distances, closestGround, mapState>>

\* initializeAPI: one firing of retryInterval (every 100 ms)
retryInterval ==
    /\ apiRetrying
    /\ IF bridge
       THEN \* checkAPI() succeeds: clearInterval, the closure is dropped
            /\ api' = TRUE
            /\ apiRetrying' = FALSE
            /\ apiAttempts' = 0
       ELSE IF apiAttempts + 1 >= maxAttempts
       THEN \* gives up: clearInterval, the closure is dropped
            /\ apiRetrying' = FALSE
            /\ apiAttempts' = 0
            /\ UNCHANGED api
       ELSE /\ apiAttempts' = apiAttempts + 1
            /\ UNCHANGED <<api, apiRetrying>>
    /\ event' = Event("initializeAPI", "none", NoRun, NoText, NoText,
                      IF bridge THEN {AppCall("test_api", NoText, NoDays, NoText)}
                      ELSE {},
                      currentScreen, "none")
    /\ UNCHANGED <<currentScreen, activeScreens, bridge, pollHandle, liveTimers, pending,
                   timeouts, banner, cancelDisabled, dataSource,
                   syntheticModal, trackFileInput, savedTrackPath, runs,
                   finished, terminated, drawer>>
    /\ UNCHANGED <<dashboard, distances, closestGround, mapState>>

\* the .screen elements of the page: the screens the code names
Screens ==
    {"welcome"} \cup {ConfigScreen(m) : m \in Modes}
        \cup {LoadingScreen(m) : m \in Modes}
        \cup {DashboardScreen(m) : m \in Modes}

\* showScreen(screenName): class active is taken from every .screen; the
\* element screenName-screen, if there is one, gets it and currentScreen
\* is set
showScreen(screenName) ==
    IF screenName \in Screens
    THEN /\ activeScreens' = {screenName}
         /\ currentScreen' = screenName
    ELSE /\ activeScreens' = {}
         /\ UNCHANGED currentScreen

\* the bridge calls showScreen(screenName) makes after the switch
\* (loadHistoricalYears; the dashboards are loaded by loadDashboard below)
showScreenCalls(screenName) ==
    IF screenName = "historical-config" /\ api
    THEN {AppCall("get_available_years", NoText, NoDays, NoText)}
    ELSE {}

\* #historicalBtn and #nowcastBtn of the welcome screen
modeBtn_click ==
    /\ currentScreen = "welcome"
    /\ currentScreen \in activeScreens
    /\ \E mode \in Modes :
          /\ showScreen(ConfigScreen(mode))
          /\ event' = Event("modeBtn", mode, NoRun, NoText, NoText,
                            showScreenCalls(ConfigScreen(mode)),
                            currentScreen, "none")
    /\ UNCHANGED <<bridge, api, apiAttempts, apiRetrying, pollHandle,
                   liveTimers, pending, timeouts, banner, cancelDisabled,
                   dataSource, syntheticModal, trackFileInput, savedTrackPath,
                   runs, finished, terminated, drawer>>
    /\ UNCHANGED <<dashboard, distances, closestGround, mapState>>

\* the screens that hold one of #backToWelcomeBtn .. #backToWelcomeBtn4
BackButtonScreens ==
    {ConfigScreen(m) : m \in Modes} \cup {DashboardScreen(m) : m \in Modes}

backToWelcomeBtn_click ==
    /\ currentScreen \in BackButtonScreens
    /\ currentScreen \in activeScreens
    /\ ~syntheticModal
    /\ showScreen("welcome")
    /\ event' = Event("backToWelcomeBtn", "none", NoRun, NoText, NoText, {},
                      currentScreen, "none")
    /\ UNCHANGED <<bridge, api, apiAttempts, apiRetrying, pollHandle,
                   liveTimers, pending, timeouts, banner, cancelDisabled,
                   dataSource, syntheticModal, trackFileInput, savedTrackPath,
                   runs, finished, terminated, drawer>>
    /\ UNCHANGED <<dashboard, distances, closestGround, mapState>>

(***************************************************************************)
(* Application shell: the nowcast configuration form.                      *)
(***************************************************************************)
DataSources == {"ibtracs", "synthetic"}

\* a .data-source-btn is clicked
dataSourceBtn_click ==
    /\ currentScreen = "nowcast-config"
    /\ ~syntheticModal
    /\ \E source \in DataSources :
          /\ dataSource' = source
          /\ syntheticModal' = (source = "synthetic")
    /\ event' = Event("dataSourceBtn", "nowcast", NoRun, NoText, NoText, {},
                      currentScreen, "none")
    /\ UNCHANGED <<currentScreen, activeScreens, bridge, api, apiAttempts, apiRetrying,
                   pollHandle, liveTimers, pending, timeouts, banner,
                   cancelDisabled, trackFileInput, savedTrackPath, runs,
                   finished, terminated, drawer>>
    /\ UNCHANGED <<dashboard, distances, closestGround, mapState>>

toLowerCaseChar(c) ==
    CASE c = "A" -> "a"
      [] c = "Z" -> "z"
      [] c = "I" -> "i"
      [] c = "P" -> "p"
      [] OTHER -> c

toLowerCase(s) == [i \in DOMAIN s |-> toLowerCaseChar(s[i])]

endsWithAnything(s, suffix) == TRUE

endsWith(s, suffix) ==
    /\ Len(s) >= Len(suffix)
    /\ SubSeq(s, Len(s) - Len(suffix) + 1, Len(s)) = suffix

DotZip == <<".", "z", "i", "p">>

FileNames ==
    {<<"A", ".", "Z", "i", "p">>, <<"a", ".", "c", "s", "v">>,
     <<"z", "i", "p">>}

AlertNotZip == <<"Please select a ZIP file containing a shapefile (.zip).">>

AlertNotZipProceed ==
    <<"Please select a ZIP file (.zip) containing a shapefile.">>

\* #trackFileInput change: the user chose a file, or none
trackFileInput_change ==
    /\ syntheticModal
    /\ \E name \in FileNames \cup {NoText} :
          IF name # NoText /\ ~endsWith(toLowerCase(name), DotZip)
          THEN /\ trackFileInput' = NoText
               /\ event' = Event("trackFileInput", "nowcast", NoRun, name,
                                 AlertNotZip, {}, currentScreen, "none")
          ELSE /\ trackFileInput' = name
               /\ event' = Event("trackFileInput", "nowcast", NoRun, name,
                                 NoText, {}, currentScreen, "none")
    /\ UNCHANGED <<currentScreen, activeScreens, bridge, api, apiAttempts, apiRetrying,
                   pollHandle, liveTimers, pending, timeouts, banner,
                   cancelDisabled, dataSource, syntheticModal, savedTrackPath,
                   runs, finished, terminated, drawer>>
    /\ UNCHANGED <<dashboard, distances, closestGround, mapState>>

\* #syntheticBackBtn, or a click outside the modal
syntheticBackBtn_click ==
    /\ syntheticModal
    /\ syntheticModal' = FALSE
    /\ event' = Event("syntheticBackBtn", "nowcast", NoRun, NoText, NoText, {},
                      currentScreen, "none")
    /\ UNCHANGED <<currentScreen, activeScreens, bridge, api, apiAttempts, apiRetrying,
                   pollHandle, liveTimers, pending, timeouts, banner,
                   cancelDisabled, dataSource, trackFileInput, savedTrackPath,
                   runs, finished, terminated, drawer>>
    /\ UNCHANGED <<dashboard, distances, closestGround, mapState>>

TrackPath == <<"drawn_track.zip">>

(***************************************************************************)
(* Track drawer.                                                           *)
(***************************************************************************)
MaxPoints == 2      \* points added to the track in one run

AlertAddPoints == <<"Please add some track points first!">>

AlertNoSaveApi == <<"Unable to save track. API not available.">>

AlertSaved == <<"Track saved successfully!">>

AlertSaveFailed == <<"Failed to save track. Please try again.">>

DrawerEvent(h, alert) ==
    Event(h, "nowcast", NoRun, NoText, alert, {}, currentScreen, "none")

\* the 100 ms timer of TrackDrawer.waitForAPI fires: checkAPI once more
waitForAPI ==
    /\ currentScreen # "none"
    /\ drawer.waiting
    /\ drawer' = [drawer EXCEPT !.api = bridge, !.waiting = FALSE]
    /\ event' = DrawerEvent("waitForAPI", NoText)
    /\ UNCHANGED <<syntheticModal, savedTrackPath>>
    /\ UNCHANGED <<currentScreen, activeScreens, bridge, api, apiAttempts,
                   apiRetrying, pollHandle, liveTimers, pending, timeouts,
                   banner, cancelDisabled, dataSource, trackFileInput, runs,
                   finished, terminated>>
    /\ UNCHANGED <<dashboard, distances, closestGround, mapState>>

\* the Draw tab of the synthetic modal is clicked: the modal is closed and
\* 100 ms later trackDrawer.open() shows the drawer (its map is created
\* at the first opening) and resets hasUnsavedChanges
drawTab_click ==
    /\ syntheticModal
    /\ ~drawer.isOpen
    /\ syntheticModal' = FALSE
    /\ drawer' = [drawer EXCEPT !.isOpen = TRUE, !.hasUnsavedChanges = FALSE]
    /\ event' = DrawerEvent("drawTab", NoText)
    /\ UNCHANGED savedTrackPath
    /\ UNCHANGED <<currentScreen, activeScreens, bridge, api, apiAttempts,
                   apiRetrying, pollHandle, liveTimers, pending, timeouts,
                   banner, cancelDisabled, dataSource, trackFileInput, runs,
                   finished, terminated>>
    /\ UNCHANGED <<dashboard, distances, closestGround, mapState>>

\* addPointToTrack that forgets the saved track
addPointToTrackForgets(d) ==
    [d EXCEPT !.trackPoints = Append(@, d.drawn + 1),
              !.drawn = @ + 1,
              !.hasUnsavedChanges = TRUE,
              !.stored = <<>>]

\* addPointToTrack(pointData): the point is pushed
addPointToTrack(d) ==
    [d EXCEPT !.trackPoints = Append(@, d.drawn + 1),
              !.drawn = @ + 1,
              !.hasUnsavedChanges = TRUE]

\* the point form of the open drawer is submitted
handleFormSubmit ==
    /\ drawer.isOpen
    /\ drawer.drawn < MaxPoints
    /\ drawer' = addPointToTrack(drawer)
    /\ event' = DrawerEvent("addPointToTrack", NoText)
    /\ UNCHANGED <<syntheticModal, savedTrackPath>>
    /\ UNCHANGED <<currentScreen, activeScreens, bridge, api, apiAttempts,
                   apiRetrying, pollHandle, liveTimers, pending, timeouts,
                   banner, cancelDisabled, dataSource, trackFileInput, runs,
                   finished, terminated>>
    /\ UNCHANGED <<dashboard, distances, closestGround, mapState>>

\* clearTrack(): nothing without points or without the user's consent
clearTrack ==
    /\ drawer.isOpen
    /\ \E confirmed \in BOOLEAN :
          /\ drawer' = IF drawer.trackPoints # <<>> /\ confirmed
                       THEN [drawer EXCEPT !.trackPoints = <<>>,
                                           !.hasUnsavedChanges = TRUE]
                       ELSE drawer
          /\ event' = DrawerEvent("clearTrack",
                                  IF confirmed THEN <<"yes">> ELSE <<"no">>)
    /\ UNCHANGED <<syntheticModal, savedTrackPath>>
    /\ UNCHANGED <<currentScreen, activeScreens, bridge, api, apiAttempts,
                   apiRetrying, pollHandle, liveTimers, pending, timeouts,
                   banner, cancelDisabled, dataSource, trackFileInput, runs,
                   finished, terminated>>
    /\ UNCHANGED <<dashboard, distances, closestGround, mapState>>

\* closeModal(): the drawer is hidden and the synthetic modal reopened
closeModal(d) == [d EXCEPT !.isOpen = FALSE]

\* downloadTrack() up to its await; awaited: whether close() waits for it
downloadTrackBegins(h, awaited) ==
    IF drawer.trackPoints = <<>>
    THEN /\ event' = DrawerEvent(h, AlertAddPoints)
         /\ UNCHANGED drawer
    ELSE IF ~drawer.api
    THEN /\ event' = DrawerEvent(h, AlertNoSaveApi)
         /\ UNCHANGED drawer
    ELSE /\ event' = DrawerEvent(h, NoText)
         /\ drawer' = [drawer EXCEPT !.saving = drawer.trackPoints,
                                     !.thenClose = awaited]

\* the Save button of the open drawer: downloadTrack()
downloadTrack_call ==
    /\ drawer.isOpen
    /\ drawer.saving = <<>>
    /\ downloadTrackBegins("downloadTrack", FALSE)
    /\ UNCHANGED <<syntheticModal, savedTrackPath>>
    /\ UNCHANGED <<currentScreen, activeScreens, bridge, api, apiAttempts,
                   apiRetrying, pollHandle, liveTimers, pending, timeouts,
                   banner, cancelDisabled, dataSource, trackFileInput, runs,
                   finished, terminated>>
    /\ UNCHANGED <<dashboard, distances, closestGround, mapState>>

\* #trackDrawerCloseBtn: close()
close ==
    /\ drawer.isOpen
    /\ drawer.saving = <<>>
    /\ \E shouldSave \in BOOLEAN :
          IF drawer.hasUnsavedChanges /\ drawer.trackPoints # <<>>
                /\ shouldSave
          THEN /\ downloadTrackBegins("close", TRUE)
               /\ UNCHANGED syntheticModal
          ELSE /\ drawer' = closeModal(drawer)
               /\ syntheticModal' = TRUE
               /\ event' = DrawerEvent("close", NoText)
    /\ UNCHANGED savedTrackPath
    /\ UNCHANGED <<currentScreen, activeScreens, bridge, api, apiAttempts,
                   apiRetrying, pollHandle, liveTimers, pending, timeouts,
                   banner, cancelDisabled, dataSource, trackFileInput, runs,
                   finished, terminated>>
    /\ UNCHANGED <<dashboard, distances, closestGround, mapState>>

\* TrackDrawer.downloadTrack after save_track has answered: with a path,
\* this.savedTrackPath = result, hasUnsavedChanges = false and
\* setSavedTrackAsUploaded(result); with nothing or an error, an alert.
\* close() closes the drawer after a save that succeeded.
downloadTrack ==
    /\ drawer.saving # <<>>
    /\ \E saved \in BOOLEAN :
          IF saved
          THEN /\ savedTrackPath' = TrackPath
               /\ drawer' = [drawer EXCEPT
                                 !.saving = <<>>,
                                 !.thenClose = FALSE,
                                 !.stored = drawer.saving,
                                 !.hasUnsavedChanges = FALSE,
                                 !.isOpen = IF drawer.thenClose THEN FALSE
                                            ELSE @]
               /\ syntheticModal' = (drawer.thenClose \/ syntheticModal)
               /\ event' = DrawerEvent("save_track", AlertSaved)
          ELSE /\ drawer' = [drawer EXCEPT !.saving = <<>>,
                                           !.thenClose = FALSE]
               /\ event' = DrawerEvent("save_track", AlertSaveFailed)
               /\ UNCHANGED <<savedTrackPath, syntheticModal>>
    /\ UNCHANGED <<currentScreen, activeScreens, bridge, api, apiAttempts,
                   apiRetrying, pollHandle, liveTimers, pending, timeouts,
                   banner, cancelDisabled, dataSource, trackFileInput, runs,
                   finished, terminated>>
    /\ UNCHANGED <<dashboard, distances, closestGround, mapState>>

(***************************************************************************)
(* Application shell: runNowcastAnalysis.                                  *)
(***************************************************************************)
ApiNotAvailable ==
    <<"API not available. Please ensure the application is running correctly.">>

AlertSelectTrack ==
    <<"Please select a shapefile or draw a track before proceeding.">>

AlertUploadApi == <<"API not available for file upload. Please try again.">>

AlertUploadFailed == <<"Failed to upload file: ">>

FailedToStart == <<"Failed to start analysis">>

FailedToStartPrefix == <<"Failed to start analysis: ">>

AnalysisFailed == <<"Analysis failed">>

\* messages a backend answer or a thrown error may carry (NoText: none)
BackendMessages == {NoText, <<"backend message">>}

\* a || b of two texts
OrElse(a, b) == IF a = NoText THEN b ELSE a

DaysTexts == {NoText, <<"0">>, <<"9", "0">>, <<"9", "1">>}

\* isNaN(parseInt(text, 10)) of a text without sign or blanks
parseIntIsNaN(text) == LeadingDigits(text) = 0

DaysInvalid(text) ==
    parseIntIsNaN(text) \/ parseInt(text) < 1 \/ parseInt(text) > 90

\* days without the validation: whatever parseInt gives, 0 standing for NaN
daysOfUnchecked(source, text) ==
    IF source = "ibtracs" THEN parseInt(text) ELSE NoDays

\* let days: null unless the source is IBTrACS, the default 7 when the
\* entered value is invalid
daysOf(source, text) ==
    IF source = "ibtracs"
    THEN (IF DaysInvalid(text) THEN 7 ELSE parseInt(text))
    ELSE NoDays

RunCall(mode, path, days) ==
    AppCall(IF mode = "historical" THEN "run_historical_analysis"
            ELSE "run_nowcast_analysis", path, days, NoText)

StatusCall(mode) ==
    AppCall(IF mode = "historical" THEN "get_historical_analysis_status"
            ELSE "get_nowcast_analysis_status", NoText, NoDays, NoText)

CancelCall(mode) ==
    AppCall(IF mode = "historical" THEN "cancel_historical_analysis"
            ELSE "cancel_nowcast_analysis", NoText, NoDays, NoText)

LoadCall(mode) ==
    AppCall(IF mode = "historical" THEN "load_historical_dashboard"
            ELSE "select_mode", NoText, NoDays, NoText)

showError(mode, message) == [banner EXCEPT ![mode] = Banner(TRUE, message)]

\* display = 'none'; no code reads the message of a hidden banner
hideError(mode) == [banner EXCEPT ![mode] = NoBanner]

\* the part of run*Analysis from "Check if API is available" to the await
\* of run_*_analysis; rest: the calls that stay awaited
beginRun(h, mode, input, rest, path, days) ==
    IF ~api
    THEN /\ banner' = showError(mode, ApiNotAvailable)
         /\ pending' = rest
         /\ event' = Event(h, mode, NoRun, input, NoText, {}, currentScreen,
                           "none")
         /\ UNCHANGED <<cancelDisabled, currentScreen, activeScreens, runs>>
    ELSE /\ Len(runs) < MaxRuns
         /\ Cardinality(rest) < MaxInFlight
         /\ banner' = hideError(mode)
         /\ cancelDisabled' = [cancelDisabled EXCEPT ![mode] = FALSE]
         /\ showScreen(LoadingScreen(mode))
         /\ runs' = Append(runs, mode)
         /\ pending' = rest \cup
               {Pending(RunCall(mode, NoText, NoDays), mode, Len(runs) + 1,
                        NoSlot)}
         /\ event' = Event(h, mode, Len(runs) + 1, input, NoText,
                           {RunCall(mode, path, days)}, currentScreen, "none")

missingTrackNever == FALSE

\* (!files || files.length === 0) && !savedTrackPath
missingTrack == trackFileInput = NoText /\ savedTrackPath = NoText

\* the uploaded file before the saved drawn track
savedTrackLast == savedTrackPath # NoText /\ trackFileInput = NoText

\* "Priority: 1) Saved drawn track, 2) Uploaded file": if (savedTrackPath)
savedTrackFirst == savedTrackPath # NoText

\* runNowcastAnalysis up to its first await or its return; modal: whether
\* the synthetic modal is shown when it is called
runNowcastAnalysis(h, modal, daysText) ==
    LET days == daysOf(dataSource, daysText)
        input == IF dataSource = "ibtracs" THEN daysText ELSE NoText
        \* the awaited read of the chosen file (one such read at a time)
        read == Pending(AppCall("readFileAsBase64", NoText, days,
                                trackFileInput), "nowcast", NoRun, NoSlot)
    IN  IF dataSource = "synthetic" /\ missingTrack
        THEN /\ syntheticModal' = TRUE
             /\ event' = Event(h, "nowcast", NoRun, input, AlertSelectTrack,
                               {}, currentScreen, "none")
             /\ UNCHANGED <<banner, cancelDisabled, currentScreen, activeScreens, runs,
                            pending>>
        ELSE IF dataSource = "synthetic" /\ ~savedTrackFirst
        THEN /\ Cardinality(pending) < MaxInFlight
             /\ read \notin pending
             /\ syntheticModal' = modal
             /\ pending' = pending \cup {read}
             /\ event' = Event(h, "nowcast", NoRun, input, NoText, {},
                               currentScreen, "none")
             /\ UNCHANGED <<banner, cancelDisabled, currentScreen, activeScreens, runs>>
        ELSE /\ syntheticModal' = modal
             /\ beginRun(h, "nowcast", input, pending,
                         IF dataSource = "synthetic" THEN savedTrackPath
                         ELSE NoText, days)

\* #runNowcastBtn
runNowcastBtn_click ==
    /\ currentScreen = "nowcast-config"
    /\ ~syntheticModal
    /\ \E daysText \in DaysTexts :
          runNowcastAnalysis("runNowcastBtn", syntheticModal, daysText)
    /\ UNCHANGED <<bridge, api, apiAttempts, apiRetrying, pollHandle,
                   liveTimers, timeouts, dataSource, trackFileInput,
                   savedTrackPath, finished, terminated, drawer>>
    /\ UNCHANGED <<dashboard, distances, closestGround, mapState>>

\* #syntheticProceedBtn
syntheticProceedBtn_click ==
    /\ syntheticModal
    /\ IF trackFileInput # NoText
          /\ ~endsWith(toLowerCase(trackFileInput), DotZip)
       THEN /\ event' = Event("syntheticProceedBtn", "nowcast", NoRun, NoText,
                              AlertNotZipProceed, {}, currentScreen, "none")
            /\ UNCHANGED <<banner, cancelDisabled, currentScreen, activeScreens, runs,
                           pending, syntheticModal>>
       ELSE IF missingTrack
       THEN /\ event' = Event("syntheticProceedBtn", "nowcast", NoRun, NoText,
                              AlertSelectTrack, {}, currentScreen, "none")
            /\ UNCHANGED <<banner, cancelDisabled, currentScreen, activeScreens, runs,
                           pending, syntheticModal>>
       ELSE \E daysText \in DaysTexts :
                runNowcastAnalysis("syntheticProceedBtn", FALSE, daysText)
    /\ UNCHANGED <<bridge, api, apiAttempts, apiRetrying, pollHandle,
                   liveTimers, timeouts, dataSource, trackFileInput,
                   savedTrackPath, finished, terminated, drawer>>
    /\ UNCHANGED <<dashboard, distances, closestGround, mapState>>

\* readFileAsBase64 settles: upload_cyclone_track is called, or an alert
readFileAsBase64 ==
    \E p \in pending, ok \in BOOLEAN :
        /\ p.call.api = "readFileAsBase64"
        /\ IF ok /\ api
           THEN \* one such upload at a time
                /\ Pending(AppCall("upload_cyclone_track", NoText,
                                   p.call.days, p.call.filename),
                           "nowcast", NoRun, NoSlot) \notin pending
                /\ pending' = (pending \ {p}) \cup
                      {Pending(AppCall("upload_cyclone_track", NoText,
                                       p.call.days, p.call.filename),
                               "nowcast", NoRun, NoSlot)}
                /\ event' = Event("runNowcastAnalysis", "nowcast", NoRun,
                                  NoText, NoText,
                                  {AppCall("upload_cyclone_track", NoText,
                                           p.call.days, p.call.filename)},
                                  currentScreen, "none")
           ELSE /\ pending' = pending \ {p}
                /\ event' = Event("runNowcastAnalysis", "nowcast", NoRun,
                                  NoText,
                                  IF ok THEN AlertUploadApi
                                  ELSE AlertUploadFailed,
                                  {}, currentScreen, "none")
        /\ UNCHANGED <<currentScreen, activeScreens, bridge, api, apiAttempts, apiRetrying,
                       pollHandle, liveTimers, timeouts, banner,
                       cancelDisabled, dataSource, syntheticModal,
                       trackFileInput, savedTrackPath, runs, finished,
                       terminated, drawer>>
        /\ UNCHANGED <<dashboard, distances, closestGround, mapState>>

\* the path upload_cyclone_track answers with for a file name
ShapefilePath(filename) == <<"extracted/">> \o filename

upload_pathIgnored(filename) == NoText

\* localZipPath = shapefilePath
upload_path(filename) == ShapefilePath(filename)

\* upload_cyclone_track settles: the run goes on, or an alert
upload_cyclone_track ==
    \E p \in pending, ok \in BOOLEAN :
        /\ p.call.api = "upload_cyclone_track"
        /\ IF ok
           THEN beginRun("runNowcastAnalysis", "nowcast", NoText,
                         pending \ {p}, upload_path(p.call.filename),
                         p.call.days)
           ELSE /\ pending' = pending \ {p}
                /\ event' = Event("runNowcastAnalysis", "nowcast", NoRun,
                                  NoText, AlertUploadFailed, {},
                                  currentScreen, "none")
                /\ UNCHANGED <<banner, cancelDisabled, currentScreen, activeScreens, runs>>
        /\ UNCHANGED <<bridge, api, apiAttempts, apiRetrying, pollHandle,
                       liveTimers, timeouts, dataSource, syntheticModal,
                       trackFileInput, savedTrackPath, finished, terminated, drawer>>
        /\ UNCHANGED <<dashboard, distances, closestGround, mapState>>

(***************************************************************************)
(* Application shell: runHistoricalAnalysis.                               *)
(***************************************************************************)
YearTexts == {NoText, <<"2", "0", "2", "1">>}

AlertSelectYear == <<"Please select a year before running the analysis.">>

yearInvalidNever(text) == FALSE

\* !year || isNaN(year), year being parseInt of the select's value
yearInvalid(text) == parseIntIsNaN(text) \/ parseInt(text) = 0

\* #runHistoricalBtn
runHistoricalBtn_click ==
    /\ currentScreen = "historical-config"
    /\ \E yearText \in YearTexts :
          IF yearInvalid(yearText)
          THEN /\ event' = Event("runHistoricalBtn", "historical", NoRun,
                                 yearText, AlertSelectYear, {}, currentScreen,
                                 "none")
               /\ UNCHANGED <<banner, cancelDisabled, currentScreen, activeScreens, runs,
                              pending>>
          ELSE beginRun("runHistoricalBtn", "historical", yearText, pending,
                        NoText, NoDays)
    /\ UNCHANGED <<bridge, api, apiAttempts, apiRetrying, pollHandle,
                   liveTimers, timeouts, dataSource, syntheticModal,
                   trackFileInput, savedTrackPath, finished, terminated, drawer>>
    /\ UNCHANGED <<dashboard, distances, closestGround, mapState>>

(***************************************************************************)
(* Application shell: status polling, cancellation, completion.            *)
(***************************************************************************)
\* the setInterval timer started for run `run` of mode `mode`
Timer(mode, run) == [mode |-> mode, run |-> run]

\* clearInterval(this.statusPollInterval) (a no-op on null)
clearInterval(mode) == liveTimers \ {Timer(mode, pollHandle[mode])}

\* clearInterval and this.statusPollInterval = null
stopPolling(mode) ==
    /\ liveTimers' = clearInterval(mode)
    /\ pollHandle' = [pollHandle EXCEPT ![mode] = NoRun]

startedAlways(outcome) == TRUE

\* run_*_analysis answered, and not with status 'error'
started(outcome) == outcome = "started"

\* run_*_analysis settles: startStatusPolling, or the error banner
runAnalysis ==
    \E p \in pending, outcome \in {"started", "error", "throw"},
       message \in BackendMessages :
        /\ p.call.api \in {"run_historical_analysis", "run_nowcast_analysis"}
        /\ outcome = "started" => message = NoText
        /\ pending' = pending \ {p}
        /\ IF started(outcome)
           THEN /\ liveTimers' = clearInterval(p.mode) \cup {Timer(p.mode, p.run)}
                /\ pollHandle' = [pollHandle EXCEPT ![p.mode] = p.run]
                /\ UNCHANGED banner
           ELSE /\ banner' = showError(p.mode,
                      IF outcome = "error" THEN OrElse(message, FailedToStart)
                      ELSE FailedToStartPrefix \o OrElse(message, <<"Error">>))
                /\ UNCHANGED <<liveTimers, pollHandle>>
        /\ event' = Event("runAnalysis", p.mode, p.run, message, NoText, {},
                          currentScreen, outcome)
        /\ UNCHANGED <<currentScreen, activeScreens, bridge, api, apiAttempts, apiRetrying,
                       timeouts, cancelDisabled, dataSource, syntheticModal,
                       trackFileInput, savedTrackPath, runs, finished,
                       terminated, drawer>>
        /\ UNCHANGED <<dashboard, distances, closestGround, mapState>>

IsStatusRequest(p) ==
    p.call.api \in {"get_historical_analysis_status",
                    "get_nowcast_analysis_status"}

\* the status requests of timer t that have not settled
StatusRequestsOf(t) ==
    {p \in pending : IsStatusRequest(p) /\ p.mode = t.mode /\ p.run = t.run}

\* one firing of a status interval (500 ms historical, 2000 ms nowcast)
pollTick ==
    \E t \in liveTimers :
        /\ api
        /\ Cardinality(pending) < MaxInFlight
        /\ pending' = pending \cup
              {Pending(StatusCall(t.mode), t.mode, t.run,
                       1 + Cardinality(StatusRequestsOf(t)))}
        /\ event' = Event("pollTick", t.mode, t.run, NoText, NoText,
                          {StatusCall(t.mode)}, currentScreen, "none")
        /\ UNCHANGED <<currentScreen, activeScreens, bridge, api, apiAttempts, apiRetrying,
                       pollHandle, liveTimers, timeouts, banner,
                       cancelDisabled, dataSource, syntheticModal,
                       trackFileInput, savedTrackPath, runs, finished,
                       terminated, drawer>>
        /\ UNCHANGED <<dashboard, distances, closestGround, mapState>>

TerminalOnlyCompleted == {"completed"}

\* the statuses on which the interval is cleared
Terminal == {"completed", "error", "cancelled"}

updateLoadingScreenHidesError(mode) == hideError(mode)

\* the banners after updateLoadingScreen(status): progress bar, message
\* and steps are redrawn, the banners are not touched
updateLoadingScreen(mode) == banner

\* a 1500 ms timer of handle*AnalysisComplete is set for the run and has
\* not fired yet
loadScheduled(mode, run) == Timeout("loadDashboard", mode, run) \in timeouts

\* a status request settles: the rest of the interval's callback
statusPoll ==
    \E p \in pending,
       outcome \in {"running", "completed", "error", "cancelled", "throw"},
       message \in BackendMessages :
        /\ IsStatusRequest(p)
        /\ p.slot = Cardinality(StatusRequestsOf(p))
        /\ outcome # "error" => message = NoText
        /\ pending' = pending \ {p}
        /\ IF outcome \in Terminal
           THEN stopPolling(p.mode)
           ELSE UNCHANGED <<liveTimers, pollHandle>>
        /\ IF outcome = "completed"
           THEN \* handleAnalysisComplete / handleNowcastAnalysisComplete
                /\ cancelDisabled' =
                      IF p.mode = "historical"
                      THEN [cancelDisabled EXCEPT ![p.mode] = TRUE]
                      ELSE cancelDisabled
                /\ timeouts' = timeouts \cup
                      {Timeout("loadDashboard", p.mode, p.run)}
           ELSE UNCHANGED <<cancelDisabled, timeouts>>
        /\ banner' = IF outcome = "error"
                     THEN showError(p.mode, OrElse(message, AnalysisFailed))
                     ELSE IF outcome = "throw"
                     THEN banner
                     ELSE updateLoadingScreen(p.mode)
        /\ event' = Event("statusPoll", p.mode, p.run, message, NoText, {},
                          currentScreen, outcome)
        /\ terminated' = IF outcome \in {"completed", "error", "cancelled"}
                         THEN terminated \cup {p.run}
                         ELSE terminated
        /\ UNCHANGED <<currentScreen, activeScreens, bridge, api, apiAttempts, apiRetrying,
                       dataSource, syntheticModal, trackFileInput,
                       savedTrackPath, runs, finished, drawer>>
        /\ UNCHANGED <<dashboard, distances, closestGround, mapState>>

\* #cancelAnalysisBtn / #cancelNowcastBtn: cancel*Analysis up to its await
cancelBtn_click ==
    \E mode \in Modes :
        /\ currentScreen = LoadingScreen(mode)
        /\ ~cancelDisabled[mode]
        /\ cancelDisabled' = [cancelDisabled EXCEPT ![mode] = TRUE]
        /\ IF api
           THEN /\ Cardinality(pending) < MaxInFlight
                /\ pending' = pending \cup
                      {Pending(CancelCall(mode), mode, lastRun(mode), NoSlot)}
                /\ event' = Event("cancelBtn", mode, lastRun(mode), NoText,
                                  NoText, {CancelCall(mode)}, currentScreen,
                                  "none")
                /\ UNCHANGED <<liveTimers, pollHandle, timeouts>>
           ELSE /\ stopPolling(mode)
                /\ timeouts' = timeouts \cup
                      {Timeout("showConfig", mode, lastRun(mode))}
                /\ event' = Event("cancelBtn", mode, lastRun(mode), NoText,
                                  NoText, {}, currentScreen, "none")
                /\ UNCHANGED pending
        /\ UNCHANGED <<currentScreen, activeScreens, bridge, api, apiAttempts, apiRetrying,
                       banner, dataSource, syntheticModal, trackFileInput,
                       savedTrackPath, runs, finished, terminated, drawer>>
        /\ UNCHANGED <<dashboard, distances, closestGround, mapState>>

\* cancel_*_analysis settles (answers anything, or throws): polling is
\* stopped and the return to the configuration screen is scheduled
cancelAnalysis ==
    \E p \in pending, outcome \in {"cancelled", "running", "throw"} :
        /\ p.call.api \in {"cancel_historical_analysis",
                           "cancel_nowcast_analysis"}
        /\ pending' = pending \ {p}
        /\ stopPolling(p.mode)
        /\ timeouts' = timeouts \cup {Timeout("showConfig", p.mode, p.run)}
        /\ event' = Event("cancelAnalysis", p.mode, p.run, NoText, NoText, {},
                          currentScreen, outcome)
        /\ UNCHANGED <<currentScreen, activeScreens, bridge, api, apiAttempts, apiRetrying,
                       banner, cancelDisabled, dataSource, syntheticModal,
                       trackFileInput, savedTrackPath, runs, finished,
                       terminated, drawer>>
        /\ UNCHANGED <<dashboard, distances, closestGround, mapState>>

\* the 500 ms timer of cancel*Analysis fires: showScreen('<mode>-config')
showConfig ==
    \E t \in timeouts :
        /\ t.kind = "showConfig"
        /\ timeouts' = timeouts \ {t}
        /\ showScreen(ConfigScreen(t.mode))
        /\ finished' = finished \cup {t.run}
        /\ UNCHANGED <<terminated, drawer>>
        /\ event' = Event("showConfig", t.mode, t.run, NoText, NoText,
                          showScreenCalls(ConfigScreen(t.mode)),
                          currentScreen, "none")
        /\ UNCHANGED <<bridge, api, apiAttempts, apiRetrying, pollHandle,
                       liveTimers, pending, banner, cancelDisabled,
                       dataSource, syntheticModal, trackFileInput,
                       savedTrackPath, runs>>
        /\ UNCHANGED <<dashboard, distances, closestGround, mapState>>

\* the 1500 ms timer of handle*AnalysisComplete fires (or the 500 ms retry
\* of loadHistoricalDashboard): the dashboard is asked for
loadDashboard ==
    \E t \in timeouts :
        /\ t.kind = "loadDashboard"
        /\ IF api
           THEN \* load_historical_dashboard() / select_mode('nowcast')
                /\ timeouts' = timeouts \ {t}
                /\ pending' = pending \cup
                      {Pending(LoadCall(t.mode), t.mode, t.run, NoSlot)}
                /\ event' = Event("loadDashboard", t.mode, t.run, NoText,
                                  NoText, {LoadCall(t.mode)}, currentScreen,
                                  "none")
                /\ UNCHANGED <<currentScreen, activeScreens>>
           ELSE IF t.mode = "historical"
           THEN \* setTimeout(() => this.loadHistoricalDashboard(), 500)
                /\ event' = Event("loadDashboardRetry", t.mode, t.run, NoText,
                                  NoText, {}, currentScreen, "none")
                /\ UNCHANGED <<timeouts, pending, currentScreen, activeScreens>>
           ELSE \* showScreen('nowcast-dashboard'): window.location.href
                /\ timeouts' = timeouts \ {t}
                /\ showScreen(DashboardScreen(t.mode))
                /\ event' = Event("loadDashboard", t.mode, t.run, NoText,
                                  NoText, {}, currentScreen, "none")
                /\ UNCHANGED pending
        /\ UNCHANGED <<bridge, api, apiAttempts, apiRetrying, pollHandle,
                       liveTimers, banner, cancelDisabled, dataSource,
                       syntheticModal, trackFileInput, savedTrackPath, runs,
                       finished, terminated, drawer>>
        /\ UNCHANGED <<dashboard, distances, closestGround, mapState>>

\* the window leaves the application page for a dashboard page: every
\* timer and every awaiting handler of the page is gone
navigated ==
    \E p \in pending, ok \in BOOLEAN :
        /\ p.call.api \in {"load_historical_dashboard", "select_mode"}
        /\ IF ok \/ p.mode = "historical"
           THEN /\ currentScreen' = "none"
                /\ activeScreens' = {}
                /\ pending' = {}
                /\ timeouts' = {}
                /\ liveTimers' = {}
           ELSE \* select_mode threw: the error is logged
                /\ pending' = pending \ {p}
                /\ UNCHANGED <<currentScreen, activeScreens, timeouts, liveTimers>>
        /\ event' = Event("navigated", p.mode, p.run, NoText, NoText, {},
                          currentScreen, IF ok THEN "ok" ELSE "throw")
        /\ UNCHANGED <<bridge, api, apiAttempts, apiRetrying, pollHandle,
                       banner, cancelDisabled, dataSource, syntheticModal,
                       trackFileInput, savedTrackPath, runs, finished,
                       terminated, drawer>>
        /\ UNCHANGED <<dashboard, distances, closestGround, mapState>>

(***************************************************************************)
(* Application shell: the error banners' close buttons.                    *)
(***************************************************************************)
\* #closeErrorBanner: hideError()
closeErrorBanner_click ==
    /\ currentScreen # "none"
    /\ banner["historical"].shown
    /\ banner' = hideError("historical")
    /\ event' = Event("closeErrorBanner", "historical", NoRun, NoText, NoText,
                      {}, currentScreen, "none")
    /\ UNCHANGED <<currentScreen, activeScreens, bridge, api, apiAttempts, apiRetrying,
                   pollHandle, liveTimers, pending, timeouts, cancelDisabled,
                   dataSource, syntheticModal, trackFileInput, savedTrackPath,
                   runs, finished, terminated, drawer>>
    /\ UNCHANGED <<dashboard, distances, closestGround, mapState>>

\* #closeNowcastErrorBanner: hideNowcastError(); showScreen('nowcast-config')
closeNowcastErrorBanner_click ==
    /\ currentScreen # "none"
    /\ banner["nowcast"].shown
    /\ banner' = hideError("nowcast")
    /\ showScreen("nowcast-config")
    /\ event' = Event("closeNowcastErrorBanner", "nowcast", NoRun, NoText,
                      NoText, {}, currentScreen, "none")
    /\ UNCHANGED <<bridge, api, apiAttempts, apiRetrying, pollHandle,
                   liveTimers, pending, timeouts, cancelDisabled, dataSource,
                   syntheticModal, trackFileInput, savedTrackPath, runs,
                   finished, terminated, drawer>>
    /\ UNCHANGED <<dashboard, distances, closestGround, mapState>>

AppInit ==
    /\ Fresh("app", "ready")
    /\ distances = <<>>
    /\ closestGround = NoText
    /\ MapConstructed
    /\ geojsonServed = TRUE
    /\ AppConstructed

\* the names showScreen is applied to: screens without a load of their
\* own, and a name no .screen element has
ScreenNames ==
    ({"welcome"} \cup {ConfigScreen(m) : m \in Modes}
         \cup {LoadingScreen(m) : m \in Modes}) \cup {"settings"}

\* app.showScreen(screenName)
showScreen_call ==
    /\ currentScreen # "none"
    /\ \E screenName \in ScreenNames :
          /\ showScreen(screenName)
          /\ event' = Event("showScreen", "none", NoRun, <<screenName>>,
                            NoText,
                            IF screenName \in Screens
                            THEN showScreenCalls(screenName) ELSE {},
                            currentScreen, "none")
    /\ UNCHANGED <<bridge, api, apiAttempts, apiRetrying, pollHandle,
                   liveTimers, pending, timeouts, banner, cancelDisabled,
                   dataSource, syntheticModal, trackFileInput, savedTrackPath,
                   runs, finished, terminated, drawer>>
    /\ UNCHANGED <<dashboard, distances, closestGround, mapState>>

\* navigation between the screens
ScreenNext ==
    \/ showScreen_call
    \/ modeBtn_click
    \/ backToWelcomeBtn_click
    \/ bridgeAttached
    \/ retryInterval

ScreenSpec == AppInit /\ [][ScreenNext]_vars

\* the configuration forms, up to the request of a run
FormNext ==
    \/ modeBtn_click
    \/ backToWelcomeBtn_click
    \/ dataSourceBtn_click
    \/ trackFileInput_change
    \/ syntheticBackBtn_click
    \/ waitForAPI
    \/ drawTab_click
    \/ handleFormSubmit
    \/ clearTrack
    \/ downloadTrack_call
    \/ close
    \/ downloadTrack
    \/ runNowcastBtn_click
    \/ syntheticProceedBtn_click
    \/ readFileAsBase64
    \/ upload_cyclone_track
    \/ runHistoricalBtn_click

FormSpec == AppInit /\ [][FormNext]_vars

\* the life of analysis runs, the IBTrACS source staying selected
RunNext ==
    \/ bridgeAttached
    \/ retryInterval
    \/ modeBtn_click
    \/ backToWelcomeBtn_click
    \/ runNowcastBtn_click
    \/ runHistoricalBtn_click
    \/ runAnalysis
    \/ pollTick
    \/ statusPoll
    \/ cancelBtn_click
    \/ cancelAnalysis
    \/ showConfig
    \/ loadDashboard
    \/ navigated
    \/ closeErrorBanner_click
    \/ closeNowcastErrorBanner_click

RunSpec == AppInit /\ [][RunNext]_vars

\* app.showScreen('historical-dashboard'): the screen is shown and
\* loadHistoricalDashboard() runs up to its await, or to its setTimeout
\* when this.api is not set
showHistoricalDashboard_call ==
    /\ currentScreen \notin {"none", "historical-dashboard"}
    /\ showScreen("historical-dashboard")
    /\ IF api
       THEN /\ pending' = pending \cup
                  {Pending(LoadCall("historical"), "historical", NoRun,
                           NoSlot)}
            /\ UNCHANGED timeouts
       ELSE /\ timeouts' = timeouts \cup
                  {Timeout("loadDashboard", "historical", NoRun)}
            /\ UNCHANGED pending
    /\ event' = Event("showScreen", "historical", NoRun,
                      <<"historical-dashboard">>, NoText,
                      IF api THEN {LoadCall("historical")} ELSE {},
                      currentScreen, "none")
    /\ UNCHANGED <<bridge, api, apiAttempts, apiRetrying, pollHandle,
                   liveTimers, banner, cancelDisabled, dataSource,
                   syntheticModal, trackFileInput, savedTrackPath, runs,
                   finished, terminated, drawer>>
    /\ UNCHANGED <<dashboard, distances, closestGround, mapState>>

\* the historical dashboard is asked for while the bridge comes and goes
DashboardLoadNext ==
    \/ bridgeAttached
    \/ retryInterval
    \/ modeBtn_click
    \/ backToWelcomeBtn_click
    \/ showHistoricalDashboard_call
    \/ loadDashboard
    \/ navigated

\* timers fire and awaited bridge calls settle
DashboardLoadSpec ==
    /\ AppInit
    /\ [][DashboardLoadNext]_vars
    /\ WF_vars(retryInterval)
    /\ WF_vars(loadDashboard)
    /\ WF_vars(navigated)

\* the interval of initializeAPI keeps firing until it is cleared
FairRunSpec == RunSpec /\ WF_vars(retryInterval)

(***************************************************************************)
(* Properties.                                                             *)
(***************************************************************************)
Quiescent == pc = "ready" /\ inflight = {}

\* C1: in the historical dashboard every response of
\* get_dashboard_data_by_year that replaces the store is the response to the
\* latest year selection: a response to an earlier selection never
\* overwrites the store once a later year has been selected.
C1_OnlyLatestYearCommitted ==
    (step.h = "yearSelector" /\ step.at = "loadTyphoonsByYear" /\ step.commit)
        => storeGen = lastGen

\* C2: whenever no fetch is in flight and no handler is running,
\* currentTyphoon is null or a key of the current typhoonData.
C2_SelectionInDataset ==
    Quiescent => (currentTyphoon = NULL \/ HasKey(typhoonData, currentTyphoon))

C3_Bounded ==
    /\ loadAttempts <= 5
    /\ loadCalls <= 5
    /\ loadCalls <= loadAttempts
    /\ waits >= loadAttempts - 1
    /\ waits <= 5

\* C3: every load makes at most 5 attempts, completes a 1-second wait
\* between consecutive attempts, issues at most 5 get_dashboard_data calls
\* (at most one per attempt), and returns to its caller whatever mix of
\* absent bridge, thrown error and answer the attempts meet.
C3_RetryBoundedAndReturns ==
    [](C3_Bounded) /\ ((pc # "ready") ~> (pc = "ready"))

\* a fifth attempt that failed after a mix of absent bridge and thrown errors
C3_Witness ==
    /\ pc = "sleep"
    /\ loadAttempts = 5
    /\ waits = 4
    /\ loadCalls \in 1..4

\* C4: when a load returns after all 5 attempts failed, the dataset is
\* empty and no storm is selected, for the initial load and for a reload
\* through onDataUpdate alike.
C4_ExhaustedLoadIsEmpty ==
    step.at = "loadExhausted"
        => (typhoonData = <<>> /\ fishingGrounds = <<>> /\ currentTyphoon = NULL)

\* C5: when loadTyphoonsByYear replaces the dataset and the storm selected
\* before is not in the new dataset, currentTyphoon is the first key of the
\* new dataset, or null if the new dataset is empty.
C5_FallbackToFirst ==
    (/\ step.h = "yearSelector"
     /\ step.at = "loadTyphoonsByYear"
     /\ step.commit
     /\ ~HasKey(typhoonData, step.prev))
        => currentTyphoon = (IF typhoonData = <<>> THEN NULL
                             ELSE typhoonData[1].key)

\* a selected storm that the new, two-storm dataset does not contain
C5_Witness ==
    /\ step.h = "yearSelector"
    /\ step.at = "loadTyphoonsByYear"
    /\ step.commit
    /\ step.prev # NULL
    /\ ~HasKey(typhoonData, step.prev)
    /\ Len(typhoonData) >= 2
    /\ currentTyphoon = typhoonData[1].key

DatasetCalls ==
    {"get_dashboard_data", "get_dashboard_data_by_year"}

FetchCalls ==
    DatasetCalls \cup {"get_typhoon_data", "get_typhoon_dates"}

\* C6 as stated: no step of a storm-selection handler, in either
\* dashboard, issues get_dashboard_data, get_dashboard_data_by_year,
\* get_typhoon_data or get_typhoon_dates.
C6_NoFetchOnStormSelection ==
    step.h \in {"typhoonSelector", "typhoonSelect"}
        => \A c \in step.calls : c.api \notin FetchCalls

\* C6 amended: selecting a storm never re-fetches the dataset.  The
\* historical typhoonSelector handler issues no bridge call at all; the
\* nowcast typhoonSelect handler issues get_typhoon_data for the selected
\* storm, then get_typhoon_dates, and never get_dashboard_data or
\* get_dashboard_data_by_year.
C6_StormSelectionFetchesNoDataset ==
    /\ step.h = "typhoonSelector" => step.calls = {}
    /\ step.h = "typhoonSelect" =>
          /\ \A c \in step.calls :
                c.api \in {"get_typhoon_data", "get_typhoon_dates"}
          /\ step.at = "change" =>
                step.calls = {Call("get_typhoon_data", NoDate, step.value)}
          /\ step.at = "loadTyphoonData" =>
                step.calls = {Call("get_typhoon_dates", NoDate, currentTyphoon)}
          /\ step.at = "updateDateSelector" => step.calls = {}

\* a nowcast storm selection that has just asked for the storm's record
C6_Witness ==
    /\ step.h = "typhoonSelect"
    /\ step.at = "change"
    /\ step.value = currentTyphoon
    /\ \E r \in inflight : r.h = "typhoonSelect" /\ r.call.id = step.value

\* C7: every selection of a year issues get_dashboard_data_by_year for
\* that year, and every selection of a date issues get_typhoon_data for the
\* current storm, also when the selected scope is the one already loaded.
C7_ScopeSelectionFetches ==
    /\ (step.h = "yearSelector" /\ step.at = "change" /\ step.value # <<>>) =>
          \E i \in DOMAIN AvailableYears :
              /\ toString(AvailableYears[i]) = step.value
              /\ step.calls = {Call("get_dashboard_data_by_year",
                                    AvailableYears[i], NULL)}
              /\ \E r \in inflight : /\ r.gen = lastGen
                                     /\ r.call \in step.calls
    /\ (step.h = "dateSelect" /\ step.at = "change") =>
          /\ step.calls = {Call("get_typhoon_data", NoDate, currentTyphoon)}
          /\ \E r \in inflight : r.gen = lastGen /\ r.call \in step.calls

\* the year that is loaded and shown is selected again
C7_Witness ==
    /\ step.h = "yearSelector"
    /\ step.at = "change"
    /\ step.value # <<>>
    /\ step.value = toString(currentYear)
    /\ typhoonData = YearTyphoons(currentYear)
    /\ typhoonData # <<>>
    /\ step.calls # {}

MinBoats(i) ==
    \A j \in DOMAIN typhoonData :
        typhoonData[i].averageBoats <= typhoonData[j].averageBoats

\* C8: the 'most disruptive' card names the storm with the minimum
\* averageBoats of the dataset, the first of them in iteration order when
\* several tie.
C8_MostDisruptiveIsFirstMinimum ==
    \E i \in DOMAIN typhoonData :
        /\ MinBoats(i)
        /\ \A j \in 1..(i - 1) : ~MinBoats(j)
        /\ summaryCards[1] = typhoonData[i].name

\* two storms tie for the minimum and a storm has been selected
C8_Witness ==
    /\ step.h = "typhoonSelector"
    /\ step.value # ""
    /\ \E i, j \in DOMAIN typhoonData :
          /\ i < j
          /\ MinBoats(i)
          /\ MinBoats(j)
          /\ \A k \in 1..(i - 1) : ~MinBoats(k)
          /\ summaryCards[1] = typhoonData[i].name

\* C9: the 'closest' card names a storm whose minDistance, read as a
\* number, is the smallest of the dataset.
C9_ClosestIsNumericMinimum ==
    \E i \in DOMAIN typhoonData :
        /\ summaryCards[2] = typhoonData[i].name
        /\ \A j \in DOMAIN typhoonData :
              parseFloat(typhoonData[i].minDistance)
                  <= parseFloat(typhoonData[j].minDistance)

\* the numerically closest storm is not the lexically smallest
C9_Witness ==
    /\ step.h = "typhoonSelector"
    /\ step.value # ""
    /\ \E i, j \in DOMAIN typhoonData :
          /\ summaryCards[2] = typhoonData[i].name
          /\ typhoonData[i].minDistance = <<"9">>
          /\ typhoonData[j].minDistance = <<"1", "0">>
          /\ StringLess(typhoonData[j].minDistance, typhoonData[i].minDistance)

\* C10: the 'highest speed' card shows "<maxSpeed> knots" for a storm whose
\* maxSpeed, read as a number, is the largest of the dataset.
C10_HighestSpeedIsNumericMaximum ==
    \E i \in DOMAIN typhoonData :
        /\ summaryCards[3] = typhoonData[i].maxSpeed \o Knots
        /\ \A j \in DOMAIN typhoonData :
              parseFloat(typhoonData[j].maxSpeed)
                  <= parseFloat(typhoonData[i].maxSpeed)

\* the numerically fastest storm is not the lexically largest
C10_Witness ==
    /\ step.h = "typhoonSelector"
    /\ step.value # ""
    /\ \E i, j \in DOMAIN typhoonData :
          /\ summaryCards[3] = typhoonData[i].maxSpeed \o Knots
          /\ typhoonData[i].maxSpeed = <<"1", "0">>
          /\ typhoonData[j].maxSpeed = <<"9">>
          /\ StringLess(typhoonData[i].maxSpeed, typhoonData[j].maxSpeed)

\* C11: for every non-empty distances array, of numbers or of strings
\* holding numbers, getClosestGround names an index inside the array whose
\* distance, read as a number, is the smallest of the array.
C11_ClosestGroundIsNumericMinimum ==
    (closestGround # NoText /\ distances # <<>>) =>
        \E i \in DOMAIN distances :
            /\ closestGround = GroundLabel(i - 1)
            /\ \A j \in DOMAIN distances :
                  ToNumber(distances[i]) <= ToNumber(distances[j])

\* C12: polling keeps its interval while the backend answers with a status
\* that is not terminal, and once it answers 'completed', 'error' or
\* 'cancelled' for a run the interval is cleared, its handle is null, and no
\* status request is made for that run any more.
C12_PollingStopsOnTerminalStatus ==
    [][/\ (event'.h = "statusPoll"
               /\ event'.status \notin {"completed", "error", "cancelled"})
            => (liveTimers' = liveTimers /\ pollHandle' = pollHandle)
       /\ (event'.h = "statusPoll"
               /\ event'.status \in {"completed", "error", "cancelled"})
            => (/\ event'.run \in terminated'
                /\ pollHandle'[event'.mode] = NoRun
                /\ \A t \in liveTimers' : t.mode # event'.mode)
       /\ \A run \in terminated' :
             /\ pollHandle'[runs'[run]] # run
             /\ Timer(runs'[run], run) \notin liveTimers'
             /\ ~(event'.h = "pollTick" /\ event'.run = run)]_vars

\* the backend answered 'cancelled' to a status request of a polled run
C12_Witness ==
    /\ event.h = "statusPoll"
    /\ event.status = "cancelled"
    /\ event.run \in terminated
    /\ pollHandle[event.mode] = NoRun
    /\ liveTimers = {}

\* C13: once the cancellation of a run has finished (its cancel request was
\* answered, polling was stopped and the configuration screen is shown
\* again), no status interval of that run is live, no status request is
\* made for it and its dashboard is not asked for, whether or not
\* run_*_analysis had settled when Cancel was clicked.
C13_NothingRunsAfterCancel ==
    \A run \in finished :
        /\ Timer(runs[run], run) \notin liveTimers
        /\ ~(/\ event.run = run
             /\ event.h \in {"pollTick", "loadDashboard", "navigated"})

\* C14: when run_*_analysis answers with status 'error' or throws, or a
\* status request is answered with 'error', the error banner of that mode
\* is shown with the message the backend supplied, or with the default text
\* when it supplied none, and polling is not running for that run
\* afterwards: an interval is started only by a run call that succeeded,
\* and a polled error clears the interval and its handle.
C14_FailureShowsBannerAndStopsPolling ==
    [][/\ (event'.h = "runAnalysis" /\ event'.status = "error")
            => (/\ banner'[event'.mode] =
                      Banner(TRUE, IF event'.input # NoText THEN event'.input
                                   ELSE <<"Failed to start analysis">>)
                /\ Timer(event'.mode, event'.run) \notin liveTimers'
                /\ pollHandle'[event'.mode] # event'.run)
       /\ (event'.h = "runAnalysis" /\ event'.status = "throw")
            => (/\ banner'[event'.mode] =
                      Banner(TRUE, <<"Failed to start analysis: ">> \o
                                   (IF event'.input # NoText
                                    THEN event'.input ELSE <<"Error">>))
                /\ Timer(event'.mode, event'.run) \notin liveTimers'
                /\ pollHandle'[event'.mode] # event'.run)
       /\ (event'.h = "statusPoll" /\ event'.status = "error")
            => (/\ banner'[event'.mode] =
                      Banner(TRUE, IF event'.input # NoText THEN event'.input
                                   ELSE <<"Analysis failed">>)
                /\ pollHandle'[event'.mode] = NoRun
                /\ \A t \in liveTimers' : t.mode # event'.mode)
       /\ \A t \in liveTimers' \ liveTimers :
             /\ event'.h = "runAnalysis"
             /\ event'.status = "started"
             /\ event'.mode = t.mode
             /\ event'.run = t.run]_vars

\* a status request of a polled run was answered with 'error' and no
\* message: the default text is shown and the interval is gone
C14_Witness ==
    /\ event.h = "statusPoll"
    /\ event.status = "error"
    /\ event.input = NoText
    /\ banner[event.mode] = Banner(TRUE, <<"Analysis failed">>)
    /\ pollHandle[event.mode] = NoRun
    /\ liveTimers = {}

\* C15: with the API attached, a Run click with the IBTrACS source selected
\* and a day count that is not a number, below 1 or above 90 is answered
\* with an alert, and no run_nowcast_analysis call is issued by it.
C15_InvalidDaysBlocked ==
    (/\ event.h \in {"runNowcastBtn", "syntheticProceedBtn"}
     /\ api
     /\ dataSource = "ibtracs"
     /\ \/ parseIntIsNaN(event.input)
        \/ parseInt(event.input) < 1
        \/ parseInt(event.input) > 90)
        => (/\ event.alert # NoText
            /\ \A c \in event.calls : c.api # "run_nowcast_analysis")

\* the name ends in .zip, whatever the case of its letters
IsZipName(name) ==
    /\ Len(name) >= 4
    /\ name[Len(name) - 3] = "."
    /\ name[Len(name) - 2] \in {"z", "Z"}
    /\ name[Len(name) - 1] \in {"i", "I"}
    /\ name[Len(name)] \in {"p", "P"}

C17_MissingInputBlocked ==
    [][(\/ /\ event'.h \in {"runNowcastBtn", "syntheticProceedBtn"}
           /\ dataSource = "synthetic"
           /\ trackFileInput = NoText
           /\ savedTrackPath = NoText
        \/ /\ event'.h = "runHistoricalBtn"
           /\ event'.input = NoText)
          => (/\ event'.alert # NoText
              /\ event'.calls = {}
              /\ pending' = pending
              /\ runs' = runs
              /\ liveTimers' = liveTimers
              /\ pollHandle' = pollHandle
              /\ timeouts' = timeouts
              /\ currentScreen' = currentScreen)]_vars

\* Run was clicked on the nowcast configuration screen with the synthetic
\* source and no track at all: the alert, and the screen is still there
C17_Witness ==
    /\ event.h = "runNowcastBtn"
    /\ event.alert =
          <<"Please select a shapefile or draw a track before proceeding.">>
    /\ dataSource = "synthetic"
    /\ trackFileInput = NoText
    /\ savedTrackPath = NoText
    /\ currentScreen = "nowcast-config"
    /\ pending = {}
    /\ runs = <<>>

\* C18 as stated: an error banner that is shown is hidden only by the step
\* in which the user dismisses it or by a step that returns to a
\* configuration screen; no other step hides it.
C18_HiddenOnlyByDismissOrReturn ==
    [][\A mode \in Modes :
          (banner[mode].shown /\ ~banner'[mode].shown)
             => \/ event'.h \in {"closeErrorBanner", "closeNowcastErrorBanner"}
                \/ /\ currentScreen' \in {ConfigScreen(m) : m \in Modes}
                   /\ currentScreen' # currentScreen]_vars

\* C18, amended: an error banner that is shown stays shown, with the same
\* or a newer message, through every step except the click on its close
\* button and the start of a new run of its mode, whose loading screen is
\* reset; a return to a configuration screen does not hide it.
C18_HiddenOnlyByDismissOrNewRun ==
    [][\A mode \in Modes :
          (banner[mode].shown /\ ~banner'[mode].shown)
             => \/ /\ event'.h \in {"closeErrorBanner",
                                    "closeNowcastErrorBanner"}
                   /\ event'.mode = mode
                \/ /\ event'.h \in {"runHistoricalBtn", "runNowcastBtn",
                                    "syntheticProceedBtn",
                                    "runNowcastAnalysis"}
                   /\ event'.mode = mode
                   /\ event'.run # NoRun
                   /\ currentScreen' = LoadingScreen(mode)]_vars

\* a banner is still shown after a status request of a run was answered
\* with 'completed'
C18_Witness ==
    /\ event.h = "statusPoll"
    /\ event.status = "completed"
    /\ \E mode \in Modes : banner[mode].shown

\* C19: on the initialised map of the historical dashboard every
\* fishing-ground layer, polygon or fallback circle marker, was built of
\* the dataset committed last, and every polygon of that dataset is on the
\* map: no layer of an earlier dataset remains.
C19_NoOrphanedGroundLayer ==
    (page = "historical" /\ pc = "ready")
        => (/\ \A layer \in mapLayers : layer.gen = storeGen
            /\ fishingGroundsGeoJSON.present
                  => polygons(fishingGroundsGeoJSON, storeGen) \subseteq
                         mapLayers)

\* C20: once a year change has been committed and no dataset request and
\* no boat-detection fetch is awaited any more, the boat-detection layer is
\* absent or was built of the detections of the committed year.
C20_BoatsOfCommittedYearOnly ==
    (/\ page = "historical"
     /\ pc = "ready"
     /\ storeGen > 0
     /\ inflight = {}
     /\ boatFetches = {})
        => boatDetectionsLayer \in {NoYear, currentYear}

(***************************************************************************)
(* C29: the status timers and the loading screens.                         *)
(***************************************************************************)
\* C29: in every reachable state, a mode whose status-polling timer is
\* active (statusPollInterval, resp. nowcastStatusPollInterval, holds a
\* timer that was not cleared) has its loading screen as the current screen.
C29_NoTimerOutlivesItsLoadingScreen ==
    \A mode \in Modes :
        (pollHandle[mode] # NoRun /\ Timer(mode, pollHandle[mode]) \in liveTimers)
            => currentScreen = LoadingScreen(mode)

(***************************************************************************)
(* C28: screen navigation.                                                 *)
(***************************************************************************)
\* C28: after any sequence of showScreen calls, with names of existing or
\* of non-existing screens, exactly one screen is active and it is the
\* screen named by currentScreen (so a call naming a non-existent screen
\* leaves the previously active screen active).
C28_ExactlyOneScreenShown ==
    currentScreen # "none" => activeScreens = {currentScreen}

(***************************************************************************)
(* C21: toggling the boat detections.                                      *)
(***************************************************************************)
\* C21: a second call of toggleBoatDetections right after a first one
\* returns boatDetectionsVisible and the layer's attached/detached state
\* to what they were before the first, and no call of
\* toggleBoatDetections issues get_boat_detections_geojson or rebuilds
\* the layer.
C21_ToggleTwiceRestores ==
    [][step'.at = "toggleBoatDetections"
          => /\ toggleBoatDetections(
                    Boats(boatDetectionsLayer', boatDetectionsVisible',
                          boatOnMap'))
                  = Boats(boatDetectionsLayer, boatDetectionsVisible,
                          boatOnMap)
             /\ step'.calls = {}
             /\ boatFetches' = boatFetches
             /\ boatDetectionsLayer' = boatDetectionsLayer]_vars

\* a layer was rendered, hidden by one call and shown again by the next
C21_Witness ==
    /\ step.at = "toggleBoatDetections"
    /\ boatDetectionsLayer # NoYear
    /\ boatDetectionsVisible
    /\ boatOnMap

(***************************************************************************)
(* C25: once a storm selection or a dataset load has been handled in the   *)
(* historical dashboard, the highlighted rows of the speed table and of    *)
(* the distance table are exactly the rows of currentTyphoon.              *)
(***************************************************************************)
C25_HighlightFollowsSelection ==
    (page = "historical" /\ pc = "ready")
        => /\ \A i \in DOMAIN view.speedTable :
                  view.speedTable[i].highlighted
                      <=> view.speedTable[i].key = currentTyphoon
           /\ \A i \in DOMAIN view.distanceTable :
                  view.distanceTable[i].highlighted
                      <=> view.distanceTable[i].key = currentTyphoon

(***************************************************************************)
(* C30: after a year change whose response holds no storm has been         *)
(* committed, the storm selector, the speed and distance tables, the       *)
(* ranked chart, the dual-axis chart and the summary cards show no storm   *)
(* of the year loaded before.                                              *)
(***************************************************************************)
C30_EmptyYearRendersEmpty ==
    (page = "historical" /\ pc = "ready" /\ step.at = "loadTyphoonsByYear"
        /\ step.commit /\ typhoonData = <<>>)
        => /\ typhoonOptions = <<>>
           /\ view.speedTable = <<>>
           /\ view.distanceTable = <<>>
           /\ view.averageBoat.labels = <<>>
           /\ view.boatDifference.baseline = [g \in Grounds |-> 0]
           /\ view.boatDifference.difference = [g \in Grounds |-> 0]
           /\ summaryCards = NoCards

(***************************************************************************)
(* C22: every view update is idempotent: called again on the page it has   *)
(* just rendered, with the store unchanged, it leaves the rows, the        *)
(* highlights, the chart data and axis bounds and the map layers exactly   *)
(* as the first call left them.                                            *)
(***************************************************************************)
C22_RenderTwiceIsRenderOnce ==
    [][(step'.h = "render" /\ step'.at \in HistoricalUpdates \cup NowcastUpdates)
          => Update(step'.at, CurrentPage') = CurrentPage']_vars

\* the speed table was rendered again over its rendered, highlighted rows
C22_Witness ==
    /\ step.h = "render"
    /\ step.at = "updateSpeedTable"
    /\ step.prev # NULL
    /\ Len(view.speedTable) = 2
    /\ view.distanceTable # <<>>
    /\ \E i \in DOMAIN view.distanceTable : view.distanceTable[i].highlighted

(***************************************************************************)
(* C23: for a fixed store, the re-render cascade leaves the same visible   *)
(* state in whatever order its sibling updates run: none of them needs     *)
(* another one to have rendered first.                                     *)
(***************************************************************************)
SiblingOrders ==
    {o \in [1..Len(updateDashboard) -> 1..Len(updateDashboard)] :
        \A i, j \in DOMAIN o : i # j => o[i] # o[j]}

C23_CascadeOrderIndependent ==
    (page = "historical" /\ pc = "ready")
        => \A o \in SiblingOrders :
               Cascade([i \in DOMAIN o |-> updateDashboard[o[i]]], CurrentPage)
                   = Cascade(updateDashboard, CurrentPage)

(***************************************************************************)
(* C26: missing ground data counts as zero and never aborts a render.      *)
(* After a year change has committed a dataset with storms, the dual-axis  *)
(* chart shows the selected storm's baseline and difference with 0 for     *)
(* every ground its boatData lacks (all zero without boatData), the        *)
(* distance table has a row for every storm with 0 for every distance it   *)
(* lacks, and every update of the cascade has run to its end.              *)
(***************************************************************************)
\* a ground's record, NoGround standing for every ground without boatData
GroundOf(storm, g) ==
    IF storm.boatData.present THEN storm.boatData.grounds[g] ELSE NoGround

C26_MissingGroundIsZero ==
    (page = "historical" /\ step.h = "yearSelector"
        /\ step.at = "loadTyphoonsByYear" /\ step.commit /\ typhoonData # <<>>)
        => /\ ~view.thrown
           /\ view.boatDifference.baseline =
                  [g \in Grounds |->
                      GroundOf(StormOf(typhoonData, currentTyphoon), g).baseline]
           /\ view.boatDifference.difference =
                  [g \in Grounds |->
                      GroundOf(StormOf(typhoonData, currentTyphoon), g).difference]
           /\ Len(view.distanceTable) = Len(typhoonData)
           /\ \A i \in DOMAIN view.distanceTable, g \in Grounds :
                  GroundOf(typhoonData[i], g).distance = NoText
                      => view.distanceTable[i].cells[g] = <<"0">>
           /\ Len(view.averageBoat.labels) = Len(typhoonData)
           /\ \A i \in DOMAIN view.speedTable :
                  view.speedTable[i].highlighted
                      <=> view.speedTable[i].key = currentTyphoon

(***************************************************************************)
(* C27: renders never write back to the store.  A step that changes        *)
(* currentTyphoon, currentYear, currentDate, typhoonData or fishingGrounds *)
(* is never a view update; it is the completion of a fetch or the handler  *)
(* of a user selection.                                                    *)
(***************************************************************************)
\* the steps that complete a fetch (its failure included) or handle a
\* change of a selector
FetchOrSelection ==
    {"loadDashboardData", "loadTyphoonsByYear", "loadDataFromAPI",
     "loadExhausted", "loadTyphoonData", "updateDateSelector", "change"}

C27_RendersLeaveStore ==
    [][<<typhoonData, currentTyphoon, currentYear, currentDate,
         fishingGrounds>>' #
       <<typhoonData, currentTyphoon, currentYear, currentDate, fishingGrounds>>
          => /\ step'.h # "render"
             /\ step'.at \in FetchOrSelection]_vars

\* updateDashboard() has rendered a storm the user selected
C27_Witness ==
    /\ step.h = "render"
    /\ step.at = "updateDashboard"
    /\ typhoonData # <<>>
    /\ currentTyphoon # FirstKey(typhoonData)
    /\ \E i \in DOMAIN view.speedTable :
           view.speedTable[i].highlighted /\ view.speedTable[i].key = currentTyphoon

(***************************************************************************)
(* C24: after updateBoatDifferenceChart, for integer per-ground data, the  *)
(* right axis has max = ceil(max(baseline) * 1.2) and min = -max, the left *)
(* axis has max = ceil(max(|difference|) * 1.2) and min = -max; baseline   *)
(* [10,20,30,0,5] with difference [-50,10,-5,0,200] gives -36..36 and      *)
(* -240..240; on both axes min <= 0 <= max.                                *)
(***************************************************************************)
\* the least integer that is at least 1.2 * n
CeilOfSixFifths(n) == CHOOSE k \in -2 * Abs(n) .. 2 * Abs(n) :
                          10 * k >= 12 * n /\ 10 * (k - 1) < 12 * n

\* the greatest element of a non-empty sequence of numbers
Greatest(xs) == CHOOSE x \in {xs[i] : i \in DOMAIN xs} :
                    \A i \in DOMAIN xs : xs[i] <= x

HasDistance(storm, g) ==
    GroundOf(storm, g).present /\ GroundOf(storm, g).distance # NoText

\* that distance, in tenths
DataDistance(storm, g) == parseFloat(GroundOf(storm, g).distance)

C31_HighlightsFollowTheData ==
    (step.h = "render" /\ step.at = "updateDashboard" /\ ~view.thrown)
        => /\ \A i \in DOMAIN view.distanceTable :
                  LET storm == typhoonData[i]
                      cell == view.distanceTable[i].closest
                  IN  (\E g \in Grounds : HasDistance(storm, g))
                          => /\ cell \in Grounds
                             /\ HasDistance(storm, cell)
                             /\ \A g \in Grounds :
                                    HasDistance(storm, g)
                                        => DataDistance(storm, cell)
                                               <= DataDistance(storm, g)
           /\ \A i \in DOMAIN view.speedTable :
                  /\ view.speedTable[i].avgHighest
                         => \A j \in DOMAIN typhoonData :
                                parseFloat(typhoonData[j].avgSpeed)
                                    <= parseFloat(typhoonData[i].avgSpeed)
                  /\ view.speedTable[i].maxHighest
                         => \A j \in DOMAIN typhoonData :
                                parseFloat(typhoonData[j].maxSpeed)
                                    <= parseFloat(typhoonData[i].maxSpeed)
           /\ view.speedTable # <<>>
                  => /\ \E i \in DOMAIN view.speedTable :
                            view.speedTable[i].avgHighest
                     /\ \E i \in DOMAIN view.speedTable :
                            view.speedTable[i].maxHighest

(***************************************************************************)
(* C32: whenever a boat-detection layer exists, it is on the map if and    *)
(* only if boatDetectionsVisible is true, however the completions of the   *)
(* boat-detection fetches interleave with the calls of                     *)
(* toggleBoatDetections; a layer that arrives while the flag is off is     *)
(* built without being added to the map, and a later toggle adds it        *)
(* without fetching anything.                                              *)
(***************************************************************************)
C32_LayerOnMapIffVisible ==
    /\ [](boatDetectionsLayer # NoYear => (boatOnMap <=> boatDetectionsVisible))
    /\ [][(step'.h = "loadBoatDetections" /\ step'.at = "render"
              /\ ~boatDetectionsVisible)
             => /\ boatDetectionsLayer' # NoYear
                /\ toString(boatDetectionsLayer') = step'.value
                /\ ~boatOnMap']_vars
    /\ [][(step'.at = "toggleBoatDetections" /\ boatDetectionsLayer # NoYear
              /\ ~boatDetectionsVisible)
             => /\ boatOnMap'
                /\ boatDetectionsVisible'
                /\ boatDetectionsLayer' = boatDetectionsLayer
                /\ boatFetches' = boatFetches
                /\ step'.calls = {}]_vars

\* a layer has arrived while the boats were hidden
C32_Witness ==
    /\ step.h = "loadBoatDetections"
    /\ step.at = "render"
    /\ boatDetectionsLayer # NoYear
    /\ ~boatDetectionsVisible
    /\ ~boatOnMap

(***************************************************************************)
(* C33: in runNowcastAnalysis with the synthetic source, a saved drawn     *)
(* track comes before an uploaded file: when a saved path exists, the run  *)
(* request carries that path and neither the chosen file is read nor       *)
(* upload_cyclone_track is called, also when a .zip file is chosen too.    *)
(***************************************************************************)
C33_SavedTrackBeforeUpload ==
    [][(event'.h \in {"runNowcastBtn", "syntheticProceedBtn"}
          /\ dataSource = "synthetic" /\ savedTrackPath # NoText)
         => /\ event'.calls \subseteq
                   {RunCall("nowcast", savedTrackPath, NoDays)}
            /\ \A p \in pending' \ pending :
                   p.call.api \notin {"readFileAsBase64",
                                      "upload_cyclone_track"}
            /\ (api /\ event'.alert = NoText)
                   => event'.calls # {}]_vars

\* a run was requested with the saved track while a .zip file was chosen
C33_Witness ==
    /\ event.h \in {"runNowcastBtn", "syntheticProceedBtn"}
    /\ dataSource = "synthetic"
    /\ trackFileInput # NoText
    /\ endsWith(toLowerCase(trackFileInput), DotZip)
    /\ event.calls = {RunCall("nowcast", TrackPath, NoDays)}

(***************************************************************************)
(* C34: for each analysis run the completion handler                       *)
(* (handleAnalysisComplete, handleNowcastAnalysisComplete) is called at    *)
(* most once and the dashboard load it schedules happens at most once,     *)
(* also when status requests of several ticks are awaited at the same      *)
(* time and more than one of them answers 'completed': the handler is      *)
(* never called for a run while the load that an earlier call of it        *)
(* scheduled for that run is still to come.                                *)
(***************************************************************************)
C34_CompletionHandledOnce ==
    [][(event'.h = "statusPoll" /\ event'.status = "completed")
          => ~loadScheduled(event'.mode, event'.run)]_vars

(***************************************************************************)
(* C35: bridge unavailability is retried transparently: if the host        *)
(* attaches the bridge at any time after startup, initializeAPI eventually *)
(* sets this.api, so that a later run request reaches the backend and      *)
(* does not report 'API not available'.                                    *)
(***************************************************************************)
C35_AttachedBridgeIsPickedUp == bridge ~> api

(***************************************************************************)
(* C36: loadHistoricalDashboard eventually finishes in every execution:    *)
(* after finitely many 500 ms re-schedules it calls                        *)
(* load_historical_dashboard or falls back to navigating to                *)
(* historical/index.html, also when this.api is never set because          *)
(* initializeAPI gave up.                                                  *)
(***************************************************************************)
\* loadHistoricalDashboard has re-scheduled itself
LoadRescheduled ==
    \E t \in timeouts : t.kind = "loadDashboard" /\ t.mode = "historical"

\* it has called load_historical_dashboard, or the page was left
LoadFinished ==
    \/ event.h = "loadDashboard" /\ event.calls = {LoadCall("historical")}
    \/ currentScreen = "none"

C36_DashboardLoadFinishes == LoadRescheduled ~> LoadFinished

(***************************************************************************)
(* C37: the days argument of every run_nowcast_analysis call is null when  *)
(* the data source is not IBTrACS, and otherwise an integer in 1..90: the  *)
(* entered value when that is an integer in 1..90, and 7 when the input    *)
(* is missing.                                                             *)
(***************************************************************************)
\* the text is the decimal form of an integer
IsInteger(text) == text # NoText /\ \A i \in DOMAIN text : IsDigit(text[i])

\* the data source runNowcastAnalysis read for the run request of a step:
\* the selected one, or synthetic when the request follows an upload
SourceOfRun(h) == IF h = "runNowcastAnalysis" THEN "synthetic" ELSE dataSource

C37_DaysArgument ==
    [][\A c \in event'.calls :
           c.api = "run_nowcast_analysis"
               => IF SourceOfRun(event'.h) # "ibtracs" THEN c.days = NoDays
                  ELSE /\ c.days \in 1..90
                       /\ (IsInteger(event'.input)
                              /\ DigitsValue(event'.input, Len(event'.input))
                                     \in 1..90)
                             => c.days = DigitsValue(event'.input,
                                                    Len(event'.input))
                       /\ event'.input = NoText => c.days = 7]_vars

\* a run was requested with the 90 days that were entered
C37_Witness ==
    /\ event.h = "runNowcastBtn"
    /\ event.input = <<"9", "0">>
    /\ dataSource = "ibtracs"
    /\ \E c \in event.calls : c.api = "run_nowcast_analysis" /\ c.days = 90

(***************************************************************************)
(* C38: getSavedTrackPath() is non-null only if no point was added and the *)
(* track was not cleared since the last successful save: whenever a saved  *)
(* path is there to be used for a nowcast run, the points stored under it  *)
(* are the drawer's current trackPoints.                                   *)
(***************************************************************************)
C38_SavedPathHoldsCurrentTrack ==
    savedTrackPath # NoText => drawer.stored = drawer.trackPoints

(***************************************************************************)
(* C39: in the nowcast dashboard a date selection makes the selected date  *)
(* the current date, and every get_typhoon_data fetch of a date selection  *)
(* that resolves with the record of the current storm, the current date    *)
(* being one of its dates, commits that date's metrics and leaves the      *)
(* current date alone.  So for two selections d1 then d2 on one storm,     *)
(* d2 made before d1's fetch resolves, in whichever order the fetches      *)
(* resolve, once both have resolved currentDate = d2 and the committed     *)
(* record carries d2's metrics.                                            *)
(***************************************************************************)
C39_LaterDateSelectionWins ==
    [][/\ (step'.h = "dateSelect" /\ step'.at = "change")
              => currentDate' = step'.value
       /\ \A r \in inflight \ inflight' :
              (/\ r.h = "dateSelect"
               /\ step'.at = "loadTyphoonData"
               /\ step'.commit
               /\ r.call.id = currentTyphoon
               /\ currentDate \in Options(DailyDates(currentTyphoon)))
                  => /\ currentDate' = currentDate
                     /\ typhoonData'
                            = <<NowcastStorm(currentTyphoon, currentDate)>>]_vars

\* the fetch of the later of two date selections on one storm resolved
\* first, and now the fetch of the earlier one has resolved too
C39_Witness ==
    /\ page = "nowcast"
    /\ step.h = "dateSelect"
    /\ step.at = "loadTyphoonData"
    /\ step.commit
    /\ inflight = {}
    /\ storeGen < lastGen
    /\ lastGen = MaxEvents
    /\ typhoonData = <<NowcastStorm(currentTyphoon, currentDate)>>
    /\ currentDate # sort(DailyDates(currentTyphoon))[1]

====
